---------------------------- MODULE Spec2Model ----------------------------
(***************************************************************************)
(* Verification model of cjulliar/tryHardNestJS.                           *)
(*                                                                         *)
(*   - the phase-3 chat page (chat/page.tsx): sendMessage, its SSE read    *)
(*     loop, the tool buttons and the reset button;                        *)
(*   - the relay handlers POST /api/agent (phase-2, the three phase-3      *)
(*     variants) and POST /api/copilot.                                    *)
(*                                                                         *)
(* Text is a sequence of Unicode code points, a network chunk a sequence   *)
(* of bytes (0..255).                                                      *)
(***************************************************************************)
EXTENDS Naturals, Integers, Sequences, FiniteSets, TLC

(***************************************************************************)
(* String literals of the sources, as code points.                         *)
(***************************************************************************)
\* "data: "
DataPrefix == <<100, 97, 116, 97, 58, 32>>
\* "data: [DONE]"
DoneLine == <<100, 97, 116, 97, 58, 32, 91, 68, 79, 78, 69, 93>>
\* "choices"
KeyChoices == <<99, 104, 111, 105, 99, 101, 115>>
\* "delta"
KeyDelta == <<100, 101, 108, 116, 97>>
\* "content"
KeyContent == <<99, 111, 110, 116, 101, 110, 116>>
\* "0"
KeyZero == <<48>>
\* "true"
LitTrue == <<116, 114, 117, 101>>
\* "false"
LitFalse == <<102, 97, 108, 115, 101>>
\* "null"
LitNull == <<110, 117, 108, 108>>
\* "[object Object]"
ObjectText == <<91, 111, 98, 106, 101, 99, 116, 32, 79, 98, 106, 101, 99, 116, 93>>
\* "Erreur: "
ErreurPrefix == <<69, 114, 114, 101, 117, 114, 58, 32>>
\* "API error"
ApiErrorText == <<65, 80, 73, 32, 101, 114, 114, 111, 114>>
\* "No stream"
NoStreamText == <<78, 111, 32, 115, 116, 114, 101, 97, 109>>

\* U+FFFD, the replacement character a TextDecoder emits for a bad byte
Replacement == 65533
\* U+FEFF, the byte order mark a TextDecoder drops at the start of a stream
ByteOrderMark == 65279
\* U+000A, the separator of buffer.split("\n")
NewLine == 10

(***************************************************************************)
(* Generic sequence helpers.                                               *)
(***************************************************************************)
Last(s) == s[Len(s)]
Front(s) == SubSeq(s, 1, Len(s) - 1)
Drop(s, n) == SubSeq(s, n + 1, Len(s))
MinOf(S) == CHOOSE x \in S : \A y \in S : x <= y

\* F(e), the value of e being computed once however often F uses it
Bind(e, F(_)) == CHOOSE y \in {F(x) : x \in {e}} : TRUE

\* the concatenation of ss[lo], ..., ss[hi]
RECURSIVE FlattenRange(_, _, _)
FlattenRange(ss, lo, hi) ==
  IF lo > hi THEN <<>>
  ELSE IF lo = hi THEN ss[lo]
  ELSE LET mid == (lo + hi) \div 2
       IN  FlattenRange(ss, lo, mid) \o FlattenRange(ss, mid + 1, hi)

\* the concatenation of the sequences of ss
Flatten(ss) == FlattenRange(ss, 1, Len(ss))

\* String.prototype.startsWith
StartsWith(s, p) == Len(s) >= Len(p) /\ SubSeq(s, 1, Len(p)) = p

\* String.prototype.split with a one-character separator
Split(s, c) ==
  Bind(<<0>> \o SelectSeq([i \in 1..Len(s) |-> i], LAMBDA i : s[i] = c)
         \o <<Len(s) + 1>>,
       LAMBDA cuts : [k \in 1..(Len(cuts) - 1) |->
                       SubSeq(s, cuts[k] + 1, cuts[k + 1] - 1)])

\* the characters String.prototype.trim removes (WhiteSpace and LineTerminator)
WhiteSpace ==
  {9, 10, 11, 12, 13, 32, 160, 5760, 8232, 8233, 8239, 8287, 12288, 65279}
    \cup (8192..8202)

\* !line.trim()
IsBlank(s) == \A i \in 1..Len(s) : s[i] \in WhiteSpace

(***************************************************************************)
(* TextDecoder("utf-8"), decode(value, { stream: true }).  The decoder     *)
(* keeps the bytes of an unfinished code point between two calls; a byte   *)
(* that cannot continue or start a sequence yields U+FFFD.                 *)
(***************************************************************************)
DecoderInit ==
  [need |-> 0, seen |-> 0, cp |-> 0, lower |-> 128, upper |-> 191, bom |-> FALSE]

DecoderReset(d) ==
  [d EXCEPT !.need = 0, !.seen = 0, !.cp = 0, !.lower = 128, !.upper = 191]

\* a byte met while no sequence is open
DecodeLead(d, b) ==
  IF b <= 127 THEN [d |-> d, out |-> <<b>>]
  ELSE IF b >= 194 /\ b <= 223
    THEN [d |-> [d EXCEPT !.need = 1, !.cp = b - 192], out |-> <<>>]
  ELSE IF b >= 224 /\ b <= 239
    THEN [d |-> [d EXCEPT !.need = 2, !.cp = b - 224,
                          !.lower = IF b = 224 THEN 160 ELSE 128,
                          !.upper = IF b = 237 THEN 159 ELSE 191],
          out |-> <<>>]
  ELSE IF b >= 240 /\ b <= 244
    THEN [d |-> [d EXCEPT !.need = 3, !.cp = b - 240,
                          !.lower = IF b = 240 THEN 144 ELSE 128,
                          !.upper = IF b = 244 THEN 143 ELSE 191],
          out |-> <<>>]
  ELSE [d |-> d, out |-> <<Replacement>>]

DecodeByte(d, b) ==
  IF d.need = 0 THEN DecodeLead(d, b)
  ELSE IF b < d.lower \/ b > d.upper
    THEN LET r == DecodeLead(DecoderReset(d), b)
         IN  [d |-> r.d, out |-> <<Replacement>> \o r.out]
  ELSE LET cp == (d.cp * 64) + (b % 64)
       IN  IF d.seen + 1 = d.need
             THEN [d |-> DecoderReset(d), out |-> <<cp>>]
             ELSE [d |-> [d EXCEPT !.seen = d.seen + 1, !.cp = cp,
                                   !.lower = 128, !.upper = 191],
                   out |-> <<>>]

\* the bytes lo..hi of a chunk, one after the other
RECURSIVE DecodeRange(_, _, _, _)
DecodeRange(d, bytes, lo, hi) ==
  IF lo > hi THEN [d |-> d, out |-> <<>>]
  ELSE IF lo = hi THEN DecodeByte(d, bytes[lo])
  ELSE LET mid == (lo + hi) \div 2
           l == DecodeRange(d, bytes, lo, mid)
           r == DecodeRange(l.d, bytes, mid + 1, hi)
       IN  [out |-> l.out \o r.out, d |-> r.d]

DecodeBytes(d, bytes) == DecodeRange(d, bytes, 1, Len(bytes))

\* drops the byte order mark if it is the first character of the stream
StripBom(r) ==
  IF r.d.bom \/ r.out = <<>> THEN r
  ELSE [d |-> [r.d EXCEPT !.bom = TRUE],
        out |-> IF Head(r.out) = ByteOrderMark THEN Tail(r.out) ELSE r.out]

\* decoder.decode(value): without { stream: true } the call flushes, an
\* unfinished code point becomes U+FFFD and nothing is kept for the next call
DecodeFlush(d, bytes) ==
  LET r == DecodeBytes(d, bytes)
  IN  StripBom([d |-> DecoderReset(r.d),
                out |-> r.out \o (IF r.d.need # 0 THEN <<Replacement>> ELSE <<>>)])

\* decoder.decode(value, { stream: true })
Decode(d, bytes) == StripBom(DecodeBytes(d, bytes))


(***************************************************************************)
(* JSON.parse.  A JSON value is [t, s, kids]: t is the type, s the text of *)
(* a string or of a number, kids the elements of an array or the members   *)
(* [k, v] of an object.  Number literals are integers: no stream of the    *)
(* model carries a fraction or an exponent.                                *)
(***************************************************************************)
Val(t, s, kids) == [t |-> t, s |-> s, kids |-> kids]
Undefined == Val("undef", <<>>, <<>>)

ParseFail == [ok |-> FALSE, v |-> Undefined, p |-> 0]
ParseOk(v, p) == [ok |-> TRUE, v |-> v, p |-> p]

JsonWs == {32, 9, 10, 13}
Digits == 48..57

\* first position at or after i that holds no JSON white space
SkipWs(s, i) == MinOf({j \in i..(Len(s) + 1) : j = Len(s) + 1 \/ s[j] \notin JsonWs})

HexVal(c) ==
  IF c \in 48..57 THEN c - 48
  ELSE IF c \in 65..70 THEN c - 55
  ELSE IF c \in 97..102 THEN c - 87
  ELSE -1

\* the character an escape \c of a JSON string stands for (0: not an escape)
Unescape(c) ==
  CASE c = 34 -> 34 [] c = 92 -> 92 [] c = 47 -> 47 [] c = 98 -> 8
    [] c = 102 -> 12 [] c = 110 -> 10 [] c = 114 -> 13 [] c = 116 -> 9
    [] OTHER -> 0

\* the rest of a string literal, j being the position after the opening quote
RECURSIVE ScanString(_, _, _)
ScanString(s, j, acc) ==
  IF j > Len(s) THEN ParseFail
  ELSE IF s[j] = 34 THEN ParseOk(Val("str", acc, <<>>), j + 1)
  ELSE IF s[j] = 92 THEN
    IF j + 1 > Len(s) THEN ParseFail
    ELSE IF Unescape(s[j + 1]) # 0
      THEN ScanString(s, j + 2, Append(acc, Unescape(s[j + 1])))
    ELSE IF s[j + 1] = 117 /\ j + 5 <= Len(s)
              /\ \A k \in (j + 2)..(j + 5) : HexVal(s[k]) >= 0
      THEN ScanString(s, j + 6,
             Append(acc, (HexVal(s[j + 2]) * 4096) + (HexVal(s[j + 3]) * 256)
                           + (HexVal(s[j + 4]) * 16) + HexVal(s[j + 5])))
    ELSE ParseFail
  ELSE IF s[j] < 32 THEN ParseFail
  ELSE ScanString(s, j + 1, Append(acc, s[j]))

ParseNumber(s, i) ==
  LET st == IF s[i] = 45 THEN i + 1 ELSE i
  IN  IF st > Len(s) \/ s[st] \notin Digits THEN ParseFail
      ELSE LET e == IF s[st] = 48 THEN st
                    ELSE MinOf({j \in st..(Len(s) + 1) :
                                  j = Len(s) + 1 \/ s[j] \notin Digits}) - 1
           IN  ParseOk(Val("num", SubSeq(s, i, e), <<>>), e + 1)

IsAt(s, i, lit) == i + Len(lit) - 1 <= Len(s) /\ SubSeq(s, i, i + Len(lit) - 1) = lit

RECURSIVE ParseValue(_, _)
RECURSIVE ParseArray(_, _, _, _)
RECURSIVE ParseObject(_, _, _, _)

ParseValue(s, at) ==
  Bind(at, LAMBDA i :
  IF i > Len(s) THEN ParseFail
  ELSE IF s[i] = 34 THEN ScanString(s, i + 1, <<>>)
  ELSE IF s[i] = 123
    THEN Bind(SkipWs(s, i + 1), LAMBDA n : ParseObject(s, n, <<>>, TRUE))
  ELSE IF s[i] = 91
    THEN Bind(SkipWs(s, i + 1), LAMBDA n : ParseArray(s, n, <<>>, TRUE))
  ELSE IF IsAt(s, i, LitTrue) THEN ParseOk(Val("true", <<>>, <<>>), i + 4)
  ELSE IF IsAt(s, i, LitFalse) THEN ParseOk(Val("false", <<>>, <<>>), i + 5)
  ELSE IF IsAt(s, i, LitNull) THEN ParseOk(Val("null", <<>>, <<>>), i + 4)
  ELSE IF s[i] = 45 \/ s[i] \in Digits THEN ParseNumber(s, i)
  ELSE ParseFail)

\* i is the position of the next element, or of the closing bracket
ParseArray(s, i, acc, first) ==
  IF i > Len(s) THEN ParseFail
  ELSE IF first /\ s[i] = 93 THEN ParseOk(Val("arr", <<>>, acc), i + 1)
  ELSE Bind(ParseValue(s, i), LAMBDA r :
    IF ~r.ok THEN ParseFail
    ELSE Bind(SkipWs(s, r.p), LAMBDA j :
      IF j > Len(s) THEN ParseFail
      ELSE IF s[j] = 44
        THEN Bind(SkipWs(s, j + 1), LAMBDA n :
               ParseArray(s, n, Append(acc, r.v), FALSE))
      ELSE IF s[j] = 93
        THEN ParseOk(Val("arr", <<>>, Append(acc, r.v)), j + 1)
      ELSE ParseFail))

\* i is the position of the next member, or of the closing brace
ParseObject(s, i, acc, first) ==
  IF i > Len(s) THEN ParseFail
  ELSE IF first /\ s[i] = 125 THEN ParseOk(Val("obj", <<>>, acc), i + 1)
  ELSE IF s[i] # 34 THEN ParseFail
  ELSE Bind(ScanString(s, i + 1, <<>>), LAMBDA k :
    IF ~k.ok THEN ParseFail
    ELSE Bind(SkipWs(s, k.p), LAMBDA j :
      IF j > Len(s) \/ s[j] # 58 THEN ParseFail
      ELSE Bind(ParseValue(s, SkipWs(s, j + 1)), LAMBDA r :
        IF ~r.ok THEN ParseFail
        ELSE Bind(SkipWs(s, r.p), LAMBDA n :
          IF n > Len(s) THEN ParseFail
          ELSE IF s[n] = 44
            THEN Bind(SkipWs(s, n + 1), LAMBDA next :
                   ParseObject(s, next, Append(acc, [k |-> k.v.s, v |-> r.v]),
                               FALSE))
          ELSE IF s[n] = 125
            THEN ParseOk(Val("obj", <<>>, Append(acc, [k |-> k.v.s, v |-> r.v])),
                         n + 1)
          ELSE ParseFail))))

\* JSON.parse(text); ok = FALSE stands for the SyntaxError it throws
JSONParse(s) ==
  Bind(ParseValue(s, SkipWs(s, 1)), LAMBDA r :
    IF r.ok /\ SkipWs(s, r.p) = Len(s) + 1 THEN r ELSE ParseFail)

\* v[key] for the keys the page reads: an own member of an object (the last
\* one of that name), element 0 of an array, character 0 of a string
Prop(v, key) ==
  IF v.t = "obj" THEN
    LET hits == {i \in 1..Len(v.kids) : v.kids[i].k = key}
    IN  IF hits = {} THEN Undefined
        ELSE v.kids[CHOOSE i \in hits : \A j \in hits : j <= i].v
  ELSE IF v.t = "arr" /\ key = KeyZero /\ Len(v.kids) > 0 THEN v.kids[1]
  ELSE IF v.t = "str" /\ key = KeyZero /\ Len(v.s) > 0
    THEN Val("str", <<v.s[1]>>, <<>>)
  ELSE Undefined

\* v?.[key]
OptProp(v, key) == IF v.t \in {"undef", "null"} THEN Undefined ELSE Prop(v, key)

\* ToBoolean
Truthy(v) ==
  CASE v.t \in {"undef", "null", "false"} -> FALSE
    [] v.t = "str" -> v.s # <<>>
    [] v.t = "num" -> v.s \notin {<<48>>, <<45, 48>>}
    [] OTHER -> TRUE

\* ToString, as applied by the + of last.content + delta
RECURSIVE JSToString(_)
RECURSIVE JoinValues(_)
JoinValues(vs) ==
  IF vs = <<>> THEN <<>>
  ELSE (IF Head(vs).t \in {"undef", "null"} THEN <<>> ELSE JSToString(Head(vs)))
         \o (IF Len(vs) > 1 THEN <<44>> \o JoinValues(Tail(vs)) ELSE <<>>)
JSToString(v) ==
  CASE v.t = "str" -> v.s
    [] v.t = "num" -> (IF v.s = <<45, 48>> THEN <<48>> ELSE v.s)
    [] v.t = "true" -> LitTrue
    [] v.t = "false" -> LitFalse
    [] v.t = "null" -> LitNull
    [] v.t = "arr" -> JoinValues(v.kids)
    [] v.t = "obj" -> ObjectText
    [] OTHER -> <<>>

\* JSON.parse(line.slice(6)) and json.choices?.[0]?.delta?.content || "":
\* throws stands for the SyntaxError of the parse or the TypeError of reading
\* a property of null, delta is the text the fragment adds
DeltaOf(text) ==
  Bind(JSONParse(text), LAMBDA r :
    IF ~r.ok \/ r.v.t = "null" THEN [throws |-> TRUE, delta |-> <<>>]
    ELSE Bind(Prop(r.v, KeyChoices), LAMBDA choices :
         Bind(OptProp(choices, KeyZero), LAMBDA choice :
         Bind(OptProp(choice, KeyDelta), LAMBDA delta :
         Bind(OptProp(delta, KeyContent), LAMBDA content :
           [throws |-> FALSE,
            delta |-> IF Truthy(content) THEN JSToString(content) ELSE <<>>])))))

(***************************************************************************)
(* The upstream side of the wire: the events of an OpenAI-compatible       *)
(* stream, JSON.stringify of a string and the UTF-8 encoding of text.      *)
(***************************************************************************)
\* {"choices":[{"delta":{"content":
EventOpen == <<123, 34, 99, 104, 111, 105, 99, 101, 115, 34, 58, 91, 123, 34, 100, 101, 108, 116, 97, 34, 58, 123, 34, 99, 111, 110, 116, 101, 110, 116, 34, 58>>
\* }}]}
EventClose == <<125, 125, 93, 125>>

HexDigit(n) == IF n < 10 THEN 48 + n ELSE 87 + n

EscapeChar(c) ==
  CASE c = 34 -> <<92, 34>> [] c = 92 -> <<92, 92>> [] c = 10 -> <<92, 110>>
    [] c = 13 -> <<92, 114>> [] c = 9 -> <<92, 116>> [] c = 8 -> <<92, 98>>
    [] c = 12 -> <<92, 102>>
    [] OTHER -> IF c < 32
                  THEN <<92, 117, 48, 48, HexDigit(c \div 16),
                      HexDigit(c % 16)>>
                ELSE <<c>>

\* JSON.stringify of a string
JsonQuote(s) == <<34>> \o Flatten([i \in 1..Len(s) |-> EscapeChar(s[i])]) \o <<34>>

\* one event line: data: {"choices":[{"delta":{"content":"..."}}]}
EventLine(c) == DataPrefix \o EventOpen \o JsonQuote(c) \o EventClose

EncodeChar(c) ==
  IF c < 128 THEN <<c>>
  ELSE IF c < 2048 THEN <<192 + (c \div 64), 128 + (c % 64)>>
  ELSE IF c < 65536
    THEN <<224 + (c \div 4096), 128 + ((c \div 64) % 64), 128 + (c % 64)>>
  ELSE <<240 + (c \div 262144), 128 + ((c \div 4096) % 64),
         128 + ((c \div 64) % 64), 128 + (c % 64)>>

Utf8Encode(s) == Flatten([i \in 1..Len(s) |-> EncodeChar(s[i])])

(***************************************************************************)
(* What the upstream endpoint sends on a stream: a script is a sequence of *)
(* items [k, c]:                                                           *)
(*   delta  an event line carrying the fragment c, and its newline         *)
(*   done   the line data: [DONE], and its newline                         *)
(*   blank  an empty line                                                  *)
(*   raw    the text c as a line, and its newline                          *)
(*   tail   the text c with no newline after it                            *)
(***************************************************************************)
Item(k, c) == [k |-> k, c |-> c]

ItemText(it) ==
  CASE it.k = "delta" -> EventLine(it.c) \o <<NewLine>>
    [] it.k = "done" -> DoneLine \o <<NewLine>>
    [] it.k = "blank" -> <<NewLine>>
    [] it.k = "raw" -> it.c \o <<NewLine>>
    [] OTHER -> it.c

ScriptText(sc) == Flatten([i \in 1..Len(sc) |-> ItemText(sc[i])])

\* "Hel", "lo": the fragments of the documented example
Hel == <<72, 101, 108>>
Lo == <<108, 111>>

Scripts ==
  << \* 1: data: {..."Hel"...}\n\n data: {..."lo"...}\n\n data: [DONE]\n\n
     <<Item("delta", Hel), Item("blank", <<>>), Item("delta", Lo),
       Item("blank", <<>>), Item("done", <<>>), Item("blank", <<>>)>>,
     \* 2: fragments of two, three and four bytes per character: e-acute,
     \*    the euro sign, an emoji
     <<Item("delta", <<233, 8364>>), Item("delta", <<128221>>),
       Item("done", <<>>)>>,
     \* 3: a quote, a backslash and a newline inside a fragment, then an
     \*    empty fragment
     <<Item("delta", <<34, 92, 10>>), Item("delta", <<>>), Item("delta", <<33>>),
       Item("done", <<>>)>>,
     \* 4: a comment line, data: {malformed json, data: null, an event ended
     \*    by CR LF, an event with no newline after it
     <<Item("raw", <<58, 32, 112, 105, 110, 103>>),
       Item("raw", <<100, 97, 116, 97, 58, 32, 123, 109, 97, 108, 102, 111,
                     114, 109, 101, 100, 32, 106, 115, 111, 110>>),
       Item("raw", <<100, 97, 116, 97, 58, 32, 110, 117, 108, 108>>),
       Item("raw", EventLine(<<120>>) \o <<13>>),
       Item("tail", EventLine(<<121>>))>>,
     \* 5: an event with the other members an OpenAI chunk carries,
     \*    data: {"id":"c1","choices":[{"index":0,"delta":{"content":"ok"},
     \*    "finish_reason":null}]}, and a byte order mark in front
     <<Item("tail", <<65279>>),
       Item("raw", <<100, 97, 116, 97, 58, 32, 123, 34, 105, 100, 34, 58, 34,
                     99, 49, 34, 44, 34, 99, 104, 111, 105, 99, 101, 115, 34,
                     58, 91, 123, 34, 105, 110, 100, 101, 120, 34, 58, 48, 44,
                     34, 100, 101, 108, 116, 97, 34, 58, 123, 34, 99, 111, 110,
                     116, 101, 110, 116, 34, 58, 34, 111, 107, 34, 125, 44, 34,
                     102, 105, 110, 105, 115, 104, 95, 114, 101, 97, 115, 111,
                     110, 34, 58, 110, 117, 108, 108, 125, 93, 125>>),
       Item("done", <<>>)>>,
     \* 6: two one-character fragments, then the stream closes
     <<Item("delta", <<97>>), Item("delta", <<98>>)>>,
     \* 7: data: [DONE] alone
     <<Item("done", <<>>)>>,
     \* 8: a fragment, a line of two spaces, a line that is a carriage
     \*    return, data: [DONE], an empty line, then one more fragment
     <<Item("delta", <<97>>), Item("raw", <<32, 32>>), Item("raw", <<13>>),
       Item("done", <<>>), Item("blank", <<>>), Item("delta", <<98>>)>>,
     \* 9: data: {"choices":[]}, data: {}, data: [1, and data: with nothing
     \*    after its space, then a fragment
     <<Item("raw", <<100, 97, 116, 97, 58, 32, 123, 34, 99, 104, 111, 105, 99, 101, 115, 34, 58, 91, 93, 125>>),
       Item("raw", <<100, 97, 116, 97, 58, 32, 123, 125>>),
       Item("raw", <<100, 97, 116, 97, 58, 32, 91, 49, 44>>),
       Item("raw", <<100, 97, 116, 97, 58, 32>>),
       Item("delta", <<122>>)>>,
     \* 10: a fragment, then an event with no newline after it
     <<Item("delta", <<97>>), Item("tail", EventLine(<<98>>))>> >>

\* the bytes of each script
Wires == [i \in 1..Len(Scripts) |-> Utf8Encode(ScriptText(Scripts[i]))]

\* the scripts of the stream specification and of the page specification
StreamScripts == {1, 2, 3, 4, 5, 6, 8, 9, 10}
ChatScripts == {6, 7}

(***************************************************************************)
(* chat/page.tsx: the state of ChatPage.                                   *)
(***************************************************************************)
VARIABLES
  messages,   \* useState<Message[]>([])
  input,      \* useState("")
  loading,    \* useState(false)
  calls,      \* the activations of sendMessage, in the order they started
  tools,      \* the tool buttons whose callTool has not answered yet
  turn        \* history: the placeholder of the last turn and how it ended

chatVars == <<messages, input, loading, calls, tools, turn>>

(***************************************************************************)
(* The state of one request to a relay handler.                            *)
(***************************************************************************)
VARIABLES
  rpc,        \* where the handler is: Idle, Received, CallingUpstream, Responded
  rq,         \* the handler, the server configuration and the request
  fetches,    \* how many times the handler called fetch for this request
  upreq,      \* the request it sent upstream
  ups,        \* what the upstream endpoint did
  resp,       \* the response the handler returned
  jar,        \* the preference cookies the browser holds
  mw,         \* what the middleware of phase 2 did with the request
  memory,     \* the Map of /api/tools
  treq        \* the requests to /api/tools, in the order they arrived

handlerVars == <<rpc, rq, fetches, upreq, ups, resp>>
sideVars == <<jar, mw, memory, treq>>
relayVars == <<rpc, rq, fetches, upreq, ups, resp, jar, mw, memory, treq>>

vars == <<messages, input, loading, calls, tools, turn,
          rpc, rq, fetches, upreq, ups, resp, jar, mw, memory, treq>>

Msg(role, content) == [role |-> role, content |-> content]

\* String.prototype.trim
Trim(s) ==
  LET keep == {i \in 1..Len(s) : s[i] \notin WhiteSpace}
  IN  IF keep = {} THEN <<>>
      ELSE SubSeq(s, MinOf(keep), CHOOSE i \in keep : \A j \in keep : j <= i)

\* !(last && last.role === "assistant")
NoTrailingAssistant(m) == m = <<>> \/ Last(m).role # "assistant"

\* a fold that starts a new assistant message when the last is none
ApplyDeltaCreate(m, delta) ==
  IF NoTrailingAssistant(m) THEN Append(m, Msg("assistant", delta))
  ELSE Append(Front(m), Msg("assistant", Last(m).content \o delta))

\* a fold that keeps the last fragment only
ApplyDeltaReplace(m, delta) ==
  IF m # <<>> /\ Last(m).role = "assistant"
    THEN Append(Front(m), Msg("assistant", delta))
    ELSE m

\* the updater of setMessages that folds a fragment into the conversation
ApplyDelta(m, delta) ==
  IF m # <<>> /\ Last(m).role = "assistant"
    THEN Append(Front(m), Msg("assistant", Last(m).content \o delta))
    ELSE m

\* a loop body without the filter, that takes what follows data: as the
\* fragment when it is not JSON
ProcessLineRaw(m, line) ==
  IF StartsWith(line, DataPrefix) THEN
    Bind(DeltaOf(Drop(line, 6)), LAMBDA r :
      IF r.throws THEN ApplyDelta(m, Drop(line, 6))
      ELSE IF r.delta = <<>> THEN m ELSE ApplyDelta(m, r.delta))
  ELSE m

\* the body of for (const line of lines)
ProcessLine(m, line) ==
  IF IsBlank(line) \/ line = DoneLine THEN m
  ELSE IF StartsWith(line, DataPrefix) THEN
    Bind(DeltaOf(Drop(line, 6)), LAMBDA r :
      IF r.throws \/ r.delta = <<>> THEN m ELSE ApplyDelta(m, r.delta))
  ELSE m

\* a loop whose try block is around the whole for: the first line that
\* throws ends the pass
RECURSIVE ProcessLinesAbort(_, _, _)
ProcessLinesAbort(m, lines, k) ==
  IF k > Len(lines) THEN m
  ELSE IF /\ ~(IsBlank(lines[k]) \/ lines[k] = DoneLine)
          /\ StartsWith(lines[k], DataPrefix)
          /\ DeltaOf(Drop(lines[k], 6)).throws
    THEN m
  ELSE Bind(ProcessLine(m, lines[k]), LAMBDA next :
         ProcessLinesAbort(next, lines, k + 1))

\* for (const line of lines), from the line k on
RECURSIVE ProcessLines(_, _, _)
ProcessLines(m, lines, k) ==
  IF k > Len(lines) THEN m
  ELSE Bind(ProcessLine(m, lines[k]), LAMBDA next :
         ProcessLines(next, lines, k + 1))

\* buffer = lines.pop() || ""
KeepLast(lines) == Last(lines)

\* the body of the read loop for one chunk
ReadStep(m, buffer, dec, chunk) ==
  Bind(Decode(dec, chunk), LAMBDA r :
  Bind(buffer \o r.out, LAMBDA text :
  Bind(Split(text, NewLine), LAMBDA lines :
    [messages |-> ProcessLines(m, Front(lines), 1),
     buffer |-> KeepLast(lines),
     dec |-> r.d])))

\* a catch block that appends the error message and removes nothing
ErrorPathKeep(m, msg) == m \o <<Msg("assistant", ErreurPrefix \o msg)>>

\* the updater of setMessages in the catch block
ErrorPath(m, msg) ==
  SelectSeq(m, LAMBDA x : x.content # <<>>)
    \o <<Msg("assistant", ErreurPrefix \o msg)>>

(***************************************************************************)
(* Bounds and inputs of the page.                                          *)
(***************************************************************************)
\* sendMessage is started at most MaxTurns times
MaxTurns == 2
\* the tool buttons are clicked at most MaxClicks times
MaxClicks == 1
\* in the page specification a read returns ChatChunk bytes, or all the rest
ChatChunk == 50

\* what the user types: " Hi" and " "
Inputs == {<<32, 72, 105>>, <<32>>}
\* the messages of the errors sendMessage catches
FailTexts == {ApiErrorText, NoStreamText}
\* what a tool answers in the field its button reads: nothing, or "ok"
ToolTexts == {<<>>, <<111, 107>>}
ToolNames == {"summarize", "sentiment", "keywords", "translate", "rag", "reformulate"}
\* what the specification of the tool buttons types and clicks: " Hi"; a
\* button that shows a field of the answer, the button that shows a list and
\* the button that shows nothing of the answer
ToolsInputs == {<<32, 72, 105>>}
ToolsTools == {"summarize", "keywords", "translate"}

\* "fr": useState("fr")
Lang == <<102, 114>>
\* the texts the tool buttons inject
SummaryPrefix == <<128221, 32, 82, 233, 115, 117, 109, 233, 32, 100, 101, 115, 32, 53, 32, 100, 101, 114, 110, 105, 101, 114, 115, 58, 32>>
SentimentPrefix == <<128522, 32, 83, 101, 110, 116, 105, 109, 101, 110, 116, 32, 100, 117, 32, 100, 101, 114, 110, 105, 101, 114, 32, 109, 101, 115, 115, 97, 103, 101, 58, 32>>
KeywordsPrefix == <<128273, 32, 77, 111, 116, 115, 45, 99, 108, 233, 115, 58, 32>>
RagPrefix == <<128218, 32, 82, 65, 71, 58, 32>>
ReformulatePrefix == <<9997, 65039, 32, 82, 101, 102, 111, 114, 109, 117, 108, 233, 58, 32>>
TranslateA == <<127757, 32, 76, 97, 110, 103, 117, 101, 32, 100, 233, 102, 105, 110, 105, 101, 58, 32>>
TranslateB == <<46, 32, 76, 101, 115, 32, 112, 114, 111, 99, 104, 97, 105, 110, 101, 115, 32, 114, 233, 112, 111, 110, 115, 101, 115, 32, 115, 101, 114, 111, 110, 116, 32, 101, 110, 32>>
Aucun == <<97, 117, 99, 117, 110>>
Inconnu == <<105, 110, 99, 111, 110, 110, 117>>
AucuneReponse == <<97, 117, 99, 117, 110, 101, 32, 114, 233, 112, 111, 110, 115, 101>>

\* x || fallback
OrElse(x, fallback) == IF x = <<>> THEN fallback ELSE x

\* the content a tool button injects; present: the field its handler reads
\* is in the answer (for keywords: is an array), text: its value (joined)
ToolMessage(t, present, text) ==
  CASE t = "summarize" -> SummaryPrefix \o OrElse(text, Aucun)
    [] t = "sentiment" -> SentimentPrefix \o OrElse(text, Inconnu)
    [] t = "keywords" -> KeywordsPrefix \o (IF present THEN text ELSE Aucun)
    [] t = "translate" -> TranslateA \o Lang \o TranslateB \o Lang \o <<46>>
    [] t = "rag" -> RagPrefix \o OrElse(text, AucuneReponse)
    [] OTHER -> ReformulatePrefix \o OrElse(text, Aucun)

\* an injection that takes the place of the last message
InjectOverLast(m, content) ==
  IF m = <<>> THEN <<Msg("assistant", content)>>
  ELSE Append(Front(m), Msg("assistant", content))

\* setMessages(m => [...m, { role: "assistant", content }]) of a tool button
Inject(m, content) == Append(m, Msg("assistant", content))

(***************************************************************************)
(* chat/page.tsx: the operations of ChatPage.  A call of sendMessage is    *)
(* [pc, sid, pos, buffer, dec]: pc is where it is suspended (fetching:     *)
(* await fetch, reading: await reader.read()), sid and pos the script the  *)
(* relay streams and the bytes already read.  A call that returned keeps   *)
(* nothing.  turn is history: idx is the place of the placeholder of the   *)
(* last turn, st how far the turn is, sid the script it was streamed,      *)
(* midChar and midLine whether a chunk of it ended inside a character,     *)
(* inside a line, lost whether a pass of its read loop found no assistant  *)
(* message at the end of the conversation.                                 *)
(***************************************************************************)
NewCall ==
  [pc |-> "fetching", sid |-> 0, pos |-> 0, buffer |-> <<>>, dec |-> DecoderInit]
DoneCall ==
  [pc |-> "done", sid |-> 0, pos |-> 0, buffer |-> <<>>, dec |-> DecoderInit]
NoTurn ==
  [idx |-> 0, st |-> "none", sid |-> 0, midChar |-> FALSE, midLine |-> FALSE,
   lost |-> FALSE]

\* disabled={loading} on the input and on the button Envoyer
CanSendAlways(l) == TRUE
CanSend(l) == ~l

\* onChange of the input
TypeInput(v) ==
  /\ CanSend(loading)
  /\ input # v
  /\ input' = v
  /\ UNCHANGED <<messages, loading, calls, tools, turn>>
  /\ UNCHANGED relayVars

\* sendMessage, up to await fetch
SendMessage ==
  /\ CanSend(loading)
  /\ Trim(input) # <<>>
  /\ Len(calls) < MaxTurns
  /\ input' = <<>>
  /\ messages' = messages \o <<Msg("user", Trim(input)), Msg("assistant", <<>>)>>
  /\ loading' = TRUE
  /\ calls' = Append(calls, NewCall)
  /\ turn' = [NoTurn EXCEPT !.idx = Len(messages) + 2, !.st = "streaming"]
  /\ UNCHANGED tools
  /\ UNCHANGED relayVars

\* catch and finally of sendMessage
Fail(i, msg) ==
  /\ messages' = ErrorPath(messages, msg)
  /\ loading' = FALSE
  /\ calls' = [calls EXCEPT ![i] = DoneCall]
  /\ turn' = IF i = Len(calls) THEN [NoTurn EXCEPT !.st = "failed"] ELSE turn
  /\ UNCHANGED <<input, tools>>
  /\ UNCHANGED relayVars

\* fetch answers 200 with a body: the read loop starts
FetchOk(i, sid) ==
  /\ calls[i].pc = "fetching"
  /\ calls' = [calls EXCEPT ![i].pc = "reading", ![i].sid = sid]
  /\ turn' = IF i = Len(calls) THEN [turn EXCEPT !.sid = sid] ELSE turn
  /\ UNCHANGED <<messages, input, loading, tools>>
  /\ UNCHANGED relayVars

\* fetch rejects, answers a status that is not ok, or answers without body
FetchFails(i, msg) ==
  /\ calls[i].pc = "fetching"
  /\ Fail(i, msg)

\* reader.read() returns the next n bytes, and the body of the loop runs
Read(i, n) ==
  \E c \in {calls[i]} :
    /\ c.pc = "reading"
    /\ n >= 1
    /\ c.pos + n <= Len(Wires[c.sid])
    /\ \E r \in {ReadStep(messages, c.buffer, c.dec,
                           SubSeq(Wires[c.sid], c.pos + 1, c.pos + n))} :
      /\ messages' = r.messages
      /\ calls' = [calls EXCEPT ![i].pos = c.pos + n,
                                ![i].buffer = r.buffer,
                                ![i].dec = r.dec]
      /\ turn' = IF i = Len(calls)
                   THEN [turn EXCEPT !.midChar = @ \/ r.dec.need # 0,
                                     !.midLine = @ \/ r.buffer # <<>>,
                                     !.lost = @ \/ NoTrailingAssistant(messages)]
                   ELSE turn
      /\ UNCHANGED <<input, loading, tools>>
      /\ UNCHANGED relayVars

\* a loop that takes the end of the stream for a failure
ReadDoneAsError(i) ==
  /\ calls[i].pc = "reading"
  /\ calls[i].pos = Len(Wires[calls[i].sid])
  /\ Fail(i, NoStreamText)

\* a loop that processes what is left in the buffer when the stream ends
ReadDoneFlush(i) ==
  /\ calls[i].pc = "reading"
  /\ calls[i].pos = Len(Wires[calls[i].sid])
  /\ messages' = ProcessLine(messages, calls[i].buffer)
  /\ calls' = [calls EXCEPT ![i] = DoneCall]
  /\ loading' = FALSE
  /\ turn' = IF i = Len(calls) /\ turn.st = "streaming"
               THEN [turn EXCEPT !.st = "ended"] ELSE turn
  /\ UNCHANGED <<input, tools>>
  /\ UNCHANGED relayVars

\* reader.read() returns done: break, then finally
ReadDone(i) ==
  /\ calls[i].pc = "reading"
  /\ calls[i].pos = Len(Wires[calls[i].sid])
  /\ calls' = [calls EXCEPT ![i] = DoneCall]
  /\ loading' = FALSE
  /\ turn' = IF i = Len(calls) /\ turn.st = "streaming"
               THEN [turn EXCEPT !.st = "ended"] ELSE turn
  /\ UNCHANGED <<messages, input, tools>>
  /\ UNCHANGED relayVars

\* reader.read() rejects
ReadThrows(i, msg) ==
  /\ calls[i].pc = "reading"
  /\ Fail(i, msg)

\* onClick of a tool button, up to await callTool
ToolClick(t) ==
  /\ Len(tools) < MaxClicks
  /\ tools' = Append(tools, [tool |-> t, open |-> TRUE])
  /\ UNCHANGED <<messages, input, loading, calls, turn>>
  /\ UNCHANGED relayVars

\* callTool answers: the button injects its message
ToolAnswers(k, present, text) ==
  /\ tools[k].open
  /\ tools' = [tools EXCEPT ![k] = [tool |-> "", open |-> FALSE]]
  /\ messages' = Inject(messages, ToolMessage(tools[k].tool, present, text))
  /\ UNCHANGED <<input, loading, calls, turn>>
  /\ UNCHANGED relayVars

\* callTool rejects (no network, or an answer that is not JSON): the handler
\* stops there
ToolFails(k) ==
  /\ tools[k].open
  /\ tools' = [tools EXCEPT ![k] = [tool |-> "", open |-> FALSE]]
  /\ UNCHANGED <<messages, input, loading, calls, turn>>
  /\ UNCHANGED relayVars

\* onClick of Reinitialiser
Reset ==
  /\ messages' = <<>>
  /\ input' = <<>>
  /\ turn' = [turn EXCEPT !.idx = 0]
  /\ UNCHANGED <<loading, calls, tools>>
  /\ UNCHANGED relayVars

(***************************************************************************)
(* Phase 2, app/page.tsx: the component Chat.  Its state is messages,      *)
(* input and loading; calls holds the operations that call /api/agent      *)
(* (sendMessage, the button "Demander un resume" and the action            *)
(* summarizeLastMessages), in the order they started.  An operation keeps  *)
(* rid, the reply it is streamed, pos, the bytes read, dec, its            *)
(* TextDecoder, and aid, the id of its assistant message.                  *)
(***************************************************************************)
MaxOps == 2

\* the replies streamed to the component: e-acute (two bytes) answers a
\* message, "ok" answers a request for a summary
Replies == <<Utf8Encode(<<233>>), Utf8Encode(<<111, 107>>)>>
ReplyTo(kind) == IF kind = "send" THEN 1 ELSE 2

\* "Une erreur est survenue."
SendErrorText == <<85, 110, 101, 32, 101, 114, 114, 101, 117, 114, 32, 101, 115, 116, 32, 115, 117, 114, 118, 101, 110, 117, 101, 46>>
\* "Erreur durant le resume." (with e-acute)
SummaryErrorText == <<69, 114, 114, 101, 117, 114, 32, 100, 117, 114, 97, 110, 116, 32, 108, 101, 32, 114, 233, 115, 117, 109, 233, 46>>

\* crypto.randomUUID(): the k-th id operation i makes
Uuid(i, k) == (10 * i) + k

NewOp(kind) ==
  [kind |-> kind, pc |-> "fetching", rid |-> 0, pos |-> 0, dec |-> DecoderInit,
   aid |-> 0]

\* prev.map(...) that adds the chunk to the last message
AppendChunkLast(m, id, chunk) ==
  IF m = <<>> THEN m ELSE [m EXCEPT ![Len(m)].content = @ \o chunk]

\* prev.map(m => (m.id === assistantId ? { ...m, content: m.content + chunk } : m))
AppendChunk(m, id, chunk) ==
  [k \in 1..Len(m) |->
     IF m[k].id = id THEN [m[k] EXCEPT !.content = @ \o chunk] ELSE m[k]]

\* onChange of the input
Page2Type(v) ==
  /\ input' = v
  /\ UNCHANGED <<messages, loading, calls, tools, turn>>
  /\ UNCHANGED relayVars

\* sendMessage, from the button Envoyer (disabled while loading) or from the
\* Enter key
Page2Send(via) ==
  /\ via = "button" => ~loading
  /\ Trim(input) # <<>>
  /\ Len(calls) < MaxOps
  /\ messages' = Append(messages, [id |-> Uuid(Len(calls) + 1, 1), role |-> "user",
                                   content |-> Trim(input)])
  /\ input' = <<>>
  /\ loading' = TRUE
  /\ calls' = Append(calls, NewOp("send"))
  /\ UNCHANGED <<tools, turn>>
  /\ UNCHANGED relayVars

\* the button "Demander un resume" (it returns when there is no message)
\* and the handler of the action summarizeLastMessages
Page2Summary(via) ==
  /\ via = "button" => Len(messages) >= 1
  /\ Len(calls) < MaxOps
  /\ loading' = TRUE
  /\ calls' = Append(calls, NewOp("summary"))
  /\ UNCHANGED <<messages, input, tools, turn>>
  /\ UNCHANGED relayVars

\* fetch answers ok with a body: the assistant message is appended and the
\* stream is read
Page2FetchOk(i, rid) ==
  /\ calls[i].pc = "fetching"
  /\ messages' = Append(messages, [id |-> Uuid(i, 2), role |-> "assistant",
                                   content |-> <<>>])
  /\ calls' = [calls EXCEPT ![i].pc = "reading", ![i].rid = rid,
                            ![i].aid = Uuid(i, 2)]
  /\ UNCHANGED <<input, loading, tools, turn>>
  /\ UNCHANGED relayVars

\* catch, then finally, of operation i
Page2Catch(i) ==
  /\ messages' = Append(messages,
                        [id |-> Uuid(i, 3), role |-> "assistant",
                         content |-> IF calls[i].kind = "send" THEN SendErrorText
                                     ELSE SummaryErrorText])
  /\ loading' = FALSE
  /\ calls' = [calls EXCEPT ![i].pc = "failed"]
  /\ UNCHANGED <<input, tools, turn>>
  /\ UNCHANGED relayVars

\* fetch rejects, or answers without ok or without a body
Page2FetchFails(i) ==
  /\ calls[i].pc = "fetching"
  /\ Page2Catch(i)

\* readTextStream: reader.read() returns the next n bytes, and onChunk runs
Page2Read(i, n) ==
  \E c \in {calls[i]} :
    /\ c.pc = "reading"
    /\ n >= 1
    /\ c.pos + n <= Len(Replies[c.rid])
    /\ \E r \in {Decode(c.dec, SubSeq(Replies[c.rid], c.pos + 1, c.pos + n))} :
         /\ messages' = AppendChunk(messages, c.aid, r.out)
         /\ calls' = [calls EXCEPT ![i].pos = c.pos + n, ![i].dec = r.d]
    /\ UNCHANGED <<input, loading, tools, turn>>
    /\ UNCHANGED relayVars

\* readTextStream: reader.read() returns done, then finally
Page2ReadDone(i) ==
  /\ calls[i].pc = "reading"
  /\ calls[i].pos = Len(Replies[calls[i].rid])
  /\ loading' = FALSE
  /\ calls' = [calls EXCEPT ![i].pc = "done"]
  /\ UNCHANGED <<messages, input, tools, turn>>
  /\ UNCHANGED relayVars

\* readTextStream: reader.read() rejects
Page2ReadThrows(i) ==
  /\ calls[i].pc = "reading"
  /\ Page2Catch(i)

\* reset
Page2Reset ==
  /\ messages' = <<>>
  /\ input' = <<>>
  /\ UNCHANGED <<loading, calls, tools, turn>>
  /\ UNCHANGED relayVars

ChatInit ==
  /\ messages = <<>>
  /\ input = <<>>
  /\ loading = FALSE
  /\ calls = <<>>
  /\ tools = <<>>
  /\ turn = NoTurn

(***************************************************************************)
(* The relay handlers: POST /api/agent of phase 2 ("p2"), the three POST   *)
(* of phase 3 (the commented streaming handler "p3a", the second streaming *)
(* handler "p3b", the JSON handler "p3c") and POST /api/copilot.           *)
(***************************************************************************)
Variants == {"p2", "p3a", "p3b", "p3c", "copilot"}
AgentVariants == {"p2", "p3a", "p3b", "p3c"}
Phase3Variants == {"p3a", "p3b", "p3c"}

\* Tu es un assistant utile et concis.
DefaultSystem == <<84, 117, 32, 101, 115, 32, 117, 110, 32, 97, 115, 115, 105, 115, 116, 97, 110, 116, 32, 117, 116, 105, 108, 101, 32, 101, 116, 32, 99, 111, 110, 99, 105, 115, 46>>
\* "Tu dois repondre en " (with e-acute)
TranslateOpen == <<84, 117, 32, 100, 111, 105, 115, 32, 114, 233, 112, 111, 110, 100, 114, 101, 32, 101, 110, 32>>
\* " et considerer toute la conversation dans cette langue." (with e-acute)
CopilotTranslateClose == <<32, 101, 116, 32, 99, 111, 110, 115, 105, 100, 233, 114, 101, 114, 32, 116, 111, 117, 116, 101, 32, 108, 97, 32, 99, 111, 110, 118, 101, 114, 115, 97, 116, 105, 111, 110, 32, 100, 97, 110, 115, 32, 99, 101, 116, 116, 101, 32, 108, 97, 110, 103, 117, 101, 46>>
\* "Hello"
Hello == <<72, 101, 108, 108, 111>>
\* "Bonjour"
Bonjour == <<66, 111, 110, 106, 111, 117, 114>>
\* "translateLang="
TranslateLangEq == <<116, 114, 97, 110, 115, 108, 97, 116, 101, 76, 97, 110, 103, 61>>
\* "injectNote="
InjectNoteEq == <<105, 110, 106, 101, 99, 116, 78, 111, 116, 101, 61>>

(***************************************************************************)
(* The preferences read from the cookie header.                            *)
(***************************************************************************)
\* (/name=([^;]+)/.exec(cookie)?.[1] || "").trim(), nameEq being "name="
CookieValue(cookie, nameEq) ==
  LET n == Len(nameEq)
      hits == {i \in 1..Len(cookie) :
                 IsAt(cookie, i, nameEq) /\ i + n <= Len(cookie) /\ cookie[i + n] # 59}
  IN  IF hits = {} THEN <<>>
      ELSE LET st == MinOf(hits) + n
               e == MinOf({j \in st..(Len(cookie) + 1) :
                             j = Len(cookie) + 1 \/ cookie[j] = 59})
           IN  Trim(SubSeq(cookie, st, e - 1))

IsPct(s, i) ==
  i + 2 <= Len(s) /\ s[i] = 37 /\ HexVal(s[i + 1]) >= 0 /\ HexVal(s[i + 2]) >= 0
PctByte(s, i) == (HexVal(s[i + 1]) * 16) + HexVal(s[i + 2])

\* decodeURIComponent; throws stands for the URIError
RECURSIVE DecodeURIFrom(_, _, _)
DecodeURIFrom(s, i, acc) ==
  IF i > Len(s) THEN [throws |-> FALSE, s |-> acc]
  ELSE IF s[i] # 37 THEN DecodeURIFrom(s, i + 1, Append(acc, s[i]))
  ELSE IF ~IsPct(s, i) THEN [throws |-> TRUE, s |-> <<>>]
  ELSE LET b == PctByte(s, i)
           n == IF b < 128 THEN 1
                ELSE IF b \in 192..223 THEN 2
                ELSE IF b \in 224..239 THEN 3
                ELSE IF b \in 240..247 THEN 4
                ELSE 0
       IN  IF n = 0 \/ \E k \in 1..(n - 1) : ~IsPct(s, i + (3 * k))
             THEN [throws |-> TRUE, s |-> <<>>]
           ELSE LET bytes == [k \in 1..n |-> PctByte(s, i + (3 * (k - 1)))]
                    r == DecodeBytes(DecoderInit, bytes)
                IN  IF r.d.need # 0 \/ Len(r.out) # 1 \/ Utf8Encode(r.out) # bytes
                      THEN [throws |-> TRUE, s |-> <<>>]
                    ELSE DecodeURIFrom(s, i + (3 * n), acc \o r.out)

DecodeURIComponent(s) == DecodeURIFrom(s, 1, <<>>)

\* the system message of the phase-3 streaming handlers
SystemPrefix(cookie) ==
  LET translateLang == CookieValue(cookie, TranslateLangEq)
      injectNote == CookieValue(cookie, InjectNoteEq)
      lang == DecodeURIComponent(translateLang)
      note == DecodeURIComponent(injectNote)
      parts == (IF translateLang # <<>> THEN <<TranslateOpen \o lang.s \o <<46>>>> ELSE <<>>)
                 \o (IF injectNote # <<>> THEN <<note.s>> ELSE <<>>)
  IN  IF translateLang # <<>> /\ lang.throws THEN [throws |-> TRUE, s |-> <<>>]
      ELSE IF injectNote # <<>> /\ note.throws THEN [throws |-> TRUE, s |-> <<>>]
      ELSE [throws |-> FALSE,
            s |-> IF parts = <<>> THEN DefaultSystem
                  ELSE IF Len(parts) = 1 THEN parts[1]
                  ELSE parts[1] \o <<32>> \o parts[2]]

\* the system message of /api/copilot
CopilotSystemPrefix(cookie) ==
  LET translateLang == CookieValue(cookie, TranslateLangEq)
      lang == DecodeURIComponent(translateLang)
  IN  IF translateLang = <<>> THEN [throws |-> FALSE, s |-> DefaultSystem]
      ELSE IF lang.throws THEN [throws |-> TRUE, s |-> <<>>]
      ELSE [throws |-> FALSE, s |-> TranslateOpen \o lang.s \o CopilotTranslateClose]

(***************************************************************************)
(* Requests, upstream answers and responses.                               *)
(***************************************************************************)
\* a request body: kind is notjson (req.json() rejects), null or object
Body(kind, hasMessages, isArray, items, prompt, inputText) ==
  [kind |-> kind, hasMessages |-> hasMessages, isArray |-> isArray,
   items |-> items, prompt |-> prompt, input |-> inputText]

Hi == <<72, 105>>
Yo == <<89, 111>>
Why == <<87, 104, 121>>

Bodies ==
  { Body("notjson", FALSE, FALSE, <<>>, <<>>, <<>>),
    Body("null", FALSE, FALSE, <<>>, <<>>, <<>>),
    \* {}
    Body("object", FALSE, FALSE, <<>>, <<>>, <<>>),
    \* { prompt: "Yo", input: "Yo" }
    Body("object", FALSE, FALSE, <<>>, Yo, Yo),
    \* { messages: "x" }
    Body("object", TRUE, FALSE, <<>>, <<>>, <<>>),
    \* { messages: [] }
    Body("object", TRUE, TRUE, <<>>, <<>>, <<>>),
    \* { messages: [{user, "Hi"}, {assistant, "Hello"}, {user, "Why"}] }
    Body("object", TRUE, TRUE,
         <<Msg("user", Hi), Msg("assistant", Hello), Msg("user", Why)>>, <<>>, <<>>),
    \* { messages: [{assistant, "Hello"}], prompt: "Yo" }
    Body("object", TRUE, TRUE, <<Msg("assistant", Hello)>>, Yo, <<>>),
    \* { messages: [{user, "Hi"}, {user, ""}], prompt: "Yo" }
    Body("object", TRUE, TRUE, <<Msg("user", Hi), Msg("user", <<>>)>>, Yo, <<>>) }

\* the cookie headers of the requests
\* translateLang=English
CookieEnglish == <<116, 114, 97, 110, 115, 108, 97, 116, 101, 76, 97, 110, 103, 61, 69, 110, 103, 108, 105, 115, 104>>
\* theme=dark; translateLang=Fran%C3%A7ais; injectNote=Sois%20bref
CookieBoth == <<116, 104, 101, 109, 101, 61, 100, 97, 114, 107, 59, 32, 116, 114, 97, 110, 115, 108, 97, 116, 101, 76, 97, 110, 103, 61, 70, 114, 97, 110, 37, 67, 51, 37, 65, 55, 97, 105, 115, 59, 32, 105, 110, 106, 101, 99, 116, 78, 111, 116, 101, 61, 83, 111, 105, 115, 37, 50, 48, 98, 114, 101, 102>>
\* theme=dark
CookieTheme == <<116, 104, 101, 109, 101, 61, 100, 97, 114, 107>>
\* translateLang=%E0%A4%A
CookieBadEscape == <<116, 114, 97, 110, 115, 108, 97, 116, 101, 76, 97, 110, 103, 61, 37, 69, 48, 37, 65, 52, 37, 65>>
\* injectNote=Sois%20bref; translateLang=English
CookieNoteFirst == <<105, 110, 106, 101, 99, 116, 78, 111, 116, 101, 61, 83, 111, 105, 115, 37, 50, 48, 98, 114, 101, 102, 59, 32, 116, 114, 97, 110, 115, 108, 97, 116, 101, 76, 97, 110, 103, 61, 69, 110, 103, 108, 105, 115, 104>>
\* mytranslateLang=English
CookieOtherName == <<109, 121, 116, 114, 97, 110, 115, 108, 97, 116, 101, 76, 97, 110, 103, 61, 69, 110, 103, 108, 105, 115, 104>>

\* mytranslateLang=English; translateLang=Fran%C3%A7ais
CookieShadowed == <<109, 121, 116, 114, 97, 110, 115, 108, 97, 116, 101, 76, 97, 110, 103, 61, 69, 110, 103, 108, 105, 115, 104, 59, 32, 116, 114, 97, 110, 115, 108, 97, 116, 101, 76, 97, 110, 103, 61, 70, 114, 97, 110, 37, 67, 51, 37, 65, 55, 97, 105, 115>>
\* injectNote=Sois%20bref
CookieNote == <<105, 110, 106, 101, 99, 116, 78, 111, 116, 101, 61, 83, 111, 105, 115, 37, 50, 48, 98, 114, 101, 102>>
\* mytranslateLang=English; translateLang=%E0%A4%A
CookieShadowedBad == <<109, 121, 116, 114, 97, 110, 115, 108, 97, 116, 101, 76, 97, 110, 103, 61, 69, 110, 103, 108, 105, 115, 104, 59, 32, 116, 114, 97, 110, 115, 108, 97, 116, 101, 76, 97, 110, 103, 61, 37, 69, 48, 37, 65, 52, 37, 65>>
\* injectNote=100%
CookieBadNote == <<105, 110, 106, 101, 99, 116, 78, 111, 116, 101, 61, 49, 48, 48, 37>>

Cookies ==
  {<<>>, CookieEnglish, CookieBoth, CookieTheme, CookieBadEscape, CookieNoteFirst,
   CookieOtherName, CookieShadowed, CookieNote, CookieShadowedBad, CookieBadNote}

\* the configured keys
Keys == {"sk-test", "sk-other"}

\* the server configuration: "" is a variable that is not set; mock is
\* USE_AGENT_MOCK=true
Envs == [key : {""} \cup Keys, url : {"", "https://llm.test/v1"}, mock : BOOLEAN]

\* what the upstream endpoint does with the call.  rejects: fetch rejects
\* with message; else it answers status, with text as the body of an error
\* (textFails: reading it rejects), and on success hasBody and payload:
\*   completion  { choices: [{ message: { content } }] }, content not empty
\*   empty       the same with content ""
\*   nochoices   {}
\*   error       { error: ... }
\*   null        the JSON null
\*   notjson     a body that is not JSON
Upstream(rejects, status, text, textFails, hasBody, payload, content) ==
  [rejects |-> rejects, message |-> IF rejects THEN "fetch failed" ELSE "",
   status |-> status, text |-> text, textFails |-> textFails,
   hasBody |-> hasBody, payload |-> payload, content |-> content]

Yes == <<89, 101, 115>>

Upstreams ==
  { Upstream(TRUE, 0, "", FALSE, FALSE, "notjson", <<>>),
    Upstream(FALSE, 429, "rate limited", FALSE, TRUE, "notjson", <<>>),
    Upstream(FALSE, 500, "", FALSE, TRUE, "notjson", <<>>),
    Upstream(FALSE, 503, "busy", TRUE, TRUE, "notjson", <<>>),
    Upstream(FALSE, 200, "", FALSE, FALSE, "notjson", <<>>),
    Upstream(FALSE, 200, "", FALSE, TRUE, "notjson", <<>>),
    Upstream(FALSE, 200, "", FALSE, TRUE, "completion", Yes),
    Upstream(FALSE, 200, "", FALSE, TRUE, "empty", <<>>),
    Upstream(FALSE, 200, "", FALSE, TRUE, "nochoices", <<>>),
    Upstream(FALSE, 200, "", FALSE, TRUE, "error", <<>>),
    Upstream(FALSE, 200, "", FALSE, TRUE, "null", <<>>) }

NoUpstream == Upstream(FALSE, 0, "", FALSE, FALSE, "none", <<>>)

\* Response.ok
Ok(status) == status \in 200..299

\* a response: error is the field error of a JSON body; hasUp tells that the
\* body has the fields status and body (ustatus, ubody); raw is the upstream
\* payload the body carries (data, details, or none); content is the field
\* content or the text of the stream; stream is "upstream" when the body is
\* upstream.body itself, "encoded" when it is a stream made of content
NoResponse ==
  [status |-> 0, ctype |-> "", cache |-> "", conn |-> "", error |-> "",
   hasUp |-> FALSE, ustatus |-> 0, ubody |-> "", raw |-> "none",
   hasContent |-> FALSE, content |-> <<>>, stream |-> "none"]

JsonError(status, error) ==
  [NoResponse EXCEPT !.status = status, !.ctype = "application/json", !.error = error]

\* the answer to an upstream status that is not ok
UpstreamErrorLost(status, text) == JsonError(502, "Upstream error")
UpstreamError(status, text) ==
  [JsonError(502, "Upstream error") EXCEPT !.hasUp = TRUE, !.ustatus = status,
                                           !.ubody = text]

\* { error: "Unexpected response format", data } and, in phase 2,
\* { error: "OpenAI API error", details: data.error }
FormatError(error, raw) == [JsonError(502, error) EXCEPT !.raw = raw]

\* { content } as JSON
JsonContent(content) ==
  [NoResponse EXCEPT !.status = 200, !.ctype = "application/json",
                     !.cache = "no-store", !.hasContent = TRUE, !.content = content]

\* a response whose body is a new stream made from text the handler read
StreamReencoded ==
  [NoResponse EXCEPT !.status = 200, !.ctype = "text/event-stream",
                     !.cache = "no-store", !.conn = "keep-alive",
                     !.stream = "encoded"]

\* new Response(upstream.body, ...) of the streaming handlers
StreamThrough ==
  [NoResponse EXCEPT !.status = 200, !.ctype = "text/event-stream",
                     !.cache = "no-store", !.conn = "keep-alive",
                     !.stream = "upstream"]

\* the artificial stream of phase 2
EncodedStream(content) ==
  [NoResponse EXCEPT !.status = 200, !.ctype = "text/plain; charset=utf-8",
                     !.cache = "no-store", !.content = content, !.stream = "encoded"]

\* the request sent upstream
UpstreamRequest(url, key, system, msgs, stream) ==
  [url |-> url, auth |-> key, system |-> system, msgs |-> msgs, stream |-> stream]
NoUpstreamRequest == UpstreamRequest("", "", <<>>, <<>>, FALSE)

\* what a handler does before it awaits fetch: it returns resp, or calls
Return(r) == [call |-> FALSE, resp |-> r, upreq |-> NoUpstreamRequest]
Call(q) == [call |-> TRUE, resp |-> NoResponse, upreq |-> q]

\* the content of the first user message
FirstUserContent(items) ==
  LET users == SelectSeq(items, LAMBDA m : m.role = "user")
  IN  IF users = <<>> THEN <<>> ELSE Head(users).content

\* messages.filter(m => m.role === "user").pop()?.content, "" when there is none
LastUserContent(items) ==
  LET users == SelectSeq(items, LAMBDA m : m.role = "user")
  IN  IF users = <<>> THEN <<>> ELSE Last(users).content

\* Array.isArray(messages)
IsArrayAlways(body) == TRUE
IsArray(body) == body.kind = "object" /\ body.hasMessages /\ body.isArray

\* !apiKey
KeyMissing(env) == env.key = ""

\* process.env.OPENAI_API_URL || "https://api.openai.com/v1/chat/completions"
ApiUrl(env) == IF env.url = "" THEN "https://api.openai.com/v1/chat/completions" ELSE env.url

(***************************************************************************)
(* The handlers, each in two parts: what it does up to await fetch, and    *)
(* what it does with the outcome of the call.                              *)
(***************************************************************************)
\* await upstream.text().catch(() => "")
ErrorText(u) == IF u.textFails THEN "" ELSE u.text

\* await upstream.json(): the payload, notjson when the call rejects
JsonOf(u) == IF u.hasBody THEN u.payload ELSE "notjson"

\* phase 2, POST, up to the call of fetch
P2Before(env, req) ==
  IF req.body.kind \in {"notjson", "null"} THEN Return(JsonError(400, "Bad Request"))
  ELSE IF ~IsArray(req.body)
    THEN Return(JsonError(400, "Invalid body: messages[] is required"))
  ELSE IF env.url = "" \/ KeyMissing(env)
    THEN Return(JsonError(500, "Missing AGENT_API_URL or AGENT_API_KEY"))
  ELSE Call(UpstreamRequest(env.url, env.key, DefaultSystem,
                            <<Msg("user", LastUserContent(req.body.items))>>, FALSE))

\* phase 2, POST, after the call of fetch
P2After(u) ==
  IF u.rejects THEN JsonError(400, "Bad Request")
  ELSE IF ~Ok(u.status) THEN UpstreamError(u.status, ErrorText(u))
  ELSE IF JsonOf(u) \in {"notjson", "null"} THEN JsonError(400, "Bad Request")
  ELSE IF JsonOf(u) = "completion" THEN EncodedStream(u.content)
  ELSE IF JsonOf(u) = "error" THEN FormatError("OpenAI API error", "details")
  ELSE FormatError("Unexpected response format", "data")

\* phase 3, the three POST of /api/agent, up to the call of fetch
P3Before(variant, env, req) ==
  LET items == IF IsArray(req.body) THEN req.body.items ELSE <<>>
      prompt == IF req.body.kind = "object" THEN req.body.prompt ELSE <<>>
      lastUserMessage == OrElse(OrElse(LastUserContent(items), prompt), Hello)
      system == IF variant = "p3c" THEN [throws |-> FALSE, s |-> DefaultSystem]
                ELSE SystemPrefix(req.cookie)
  IN  IF KeyMissing(env) THEN Return(JsonError(500, "Missing OPENAI_API_KEY"))
      ELSE IF system.throws THEN Return(JsonError(500, "URI malformed"))
      ELSE Call(UpstreamRequest(ApiUrl(env), env.key, system.s,
                                <<Msg("user", lastUserMessage)>>, variant # "p3c"))

\* the catch block of the phase-3 handlers: message || "Internal error"
InternalError(message) ==
  JsonError(500, IF message = "" THEN "Internal error" ELSE message)

\* phase 3, the streaming POST, after the call of fetch
P3StreamAfter(u) ==
  IF u.rejects THEN InternalError(u.message)
  ELSE IF ~Ok(u.status) THEN UpstreamError(u.status, ErrorText(u))
  ELSE IF ~u.hasBody THEN JsonError(502, "No response body")
  ELSE StreamThrough

\* phase 3, the JSON POST, after the call of fetch
P3JsonAfter(u) ==
  LET content == IF JsonOf(u) = "completion" THEN u.content ELSE <<>>
  IN  IF u.rejects THEN InternalError(u.message)
      ELSE IF ~Ok(u.status) THEN UpstreamError(u.status, ErrorText(u))
      ELSE IF JsonOf(u) = "notjson" THEN InternalError("Unexpected token")
      ELSE IF content = <<>> THEN FormatError("Unexpected response format", "data")
      ELSE JsonContent(content)

\* /api/copilot, up to the call of fetch
CopilotBefore(env, req) ==
  LET messages0 == IF IsArray(req.body) THEN req.body.items
                   ELSE IF req.body.input # <<>> THEN <<Msg("user", req.body.input)>>
                   ELSE <<>>
      lastUserMessage == OrElse(LastUserContent(messages0), Bonjour)
      system == CopilotSystemPrefix(req.cookie)
  IN  IF KeyMissing(env) THEN Return(JsonError(500, "Missing OPENAI_API_KEY"))
      ELSE IF req.body.kind = "null"
        THEN Return(InternalError("Cannot read properties of null"))
      ELSE IF system.throws THEN Return(JsonError(500, "URI malformed"))
      ELSE Call(UpstreamRequest(ApiUrl(env), env.key, system.s,
                                IF messages0 # <<>> THEN messages0
                                ELSE <<Msg("user", lastUserMessage)>>, FALSE))

\* /api/copilot, after the call of fetch
CopilotAfter(u) ==
  IF u.rejects THEN InternalError(u.message)
  ELSE IF ~Ok(u.status) THEN UpstreamError(u.status, ErrorText(u))
  ELSE JsonContent(IF JsonOf(u) = "completion" THEN u.content ELSE <<>>)

Before(r) ==
  CASE r.variant = "p2" -> P2Before(r.env, r.req)
    [] r.variant = "copilot" -> CopilotBefore(r.env, r.req)
    [] OTHER -> P3Before(r.variant, r.env, r.req)

\* a handler that answers with the key of the configuration
AfterEcho(r, u) == UpstreamError(u.status, r.env.key)

After(r, u) ==
  CASE r.variant = "p2" -> P2After(u)
    [] r.variant \in {"p3a", "p3b"} -> P3StreamAfter(u)
    [] r.variant = "p3c" -> P3JsonAfter(u)
    [] OTHER -> CopilotAfter(u)

(***************************************************************************)
(* One request to a relay handler.                                         *)
(***************************************************************************)
(***************************************************************************)
(* POST /api/tools, action set.prefs, and the cookies of the browser.      *)
(***************************************************************************)
\* the characters encodeURIComponent keeps: A-Z a-z 0-9 - _ . ! ~ * ' ( )
Unreserved == (65..90) \cup (97..122) \cup (48..57)
                \cup {45, 95, 46, 33, 126, 42, 39, 40, 41}

\* the characters encodeURI keeps besides: ; / ? : @ & = + $ , #
Reserved == {59, 47, 63, 58, 64, 38, 61, 43, 36, 44, 35}

HexUpper(n) == IF n < 10 THEN 48 + n ELSE 55 + n

\* %XX for a byte
PctEncode(b) == <<37, HexUpper(b \div 16), HexUpper(b % 16)>>

\* the escapes of the UTF-8 bytes of a character
PctEncodeChar(c) ==
  Bind(EncodeChar(c),
       LAMBDA bytes : Flatten([k \in 1..Len(bytes) |-> PctEncode(bytes[k])]))

\* encodeURI
EncodeURI(s) ==
  Flatten([i \in 1..Len(s) |->
             IF s[i] \in Unreserved \cup Reserved THEN <<s[i]>>
             ELSE PctEncodeChar(s[i])])

\* encodeURIComponent
EncodeURIComponent(s) ==
  Flatten([i \in 1..Len(s) |->
             IF s[i] \in Unreserved THEN <<s[i]>> ELSE PctEncodeChar(s[i])])

\* "; Path=/; HttpOnly; SameSite=Lax"
CookieAttributes == <<59, 32, 80, 97, 116, 104, 61, 47, 59, 32, 72, 116, 116, 112, 79, 110, 108, 121, 59, 32, 83, 97, 109, 101, 83, 105, 116, 101, 61, 76, 97, 120>>

\* a preference of the payload: given is FALSE when the payload has none
Pref(given, s) == [given |-> given, s |-> s]
NoPref == Pref(FALSE, <<>>)

\* the set-cookie headers of the response to set.prefs
SetPrefsCookies(payload) ==
  (IF payload.translateLang.given /\ payload.translateLang.s # <<>>
     THEN <<TranslateLangEq \o EncodeURIComponent(payload.translateLang.s)
              \o CookieAttributes>>
   ELSE <<>>)
    \o (IF payload.injectNote.given
          THEN <<InjectNoteEq \o EncodeURIComponent(payload.injectNote.s)
                   \o CookieAttributes>>
        ELSE <<>>)

\* the cookie a browser makes of a set-cookie header: the pair name=value
\* ends at the first semicolon, the name at the first equals sign
ParseSetCookie(header) ==
  LET semis == {j \in 1..Len(header) : header[j] = 59}
      pair == IF semis = {} THEN header ELSE SubSeq(header, 1, MinOf(semis) - 1)
      eqs == {j \in 1..Len(pair) : pair[j] = 61}
  IN  IF eqs = {} THEN [name |-> <<>>, value |-> Trim(pair)]
      ELSE [name |-> Trim(SubSeq(pair, 1, MinOf(eqs) - 1)),
            value |-> Trim(SubSeq(pair, MinOf(eqs) + 1, Len(pair)))]

\* the browser stores a cookie: one of the same name keeps its place
StoreCookie(cookies, c) ==
  IF \E k \in 1..Len(cookies) : cookies[k].name = c.name
    THEN [k \in 1..Len(cookies) |->
            IF cookies[k].name = c.name THEN c ELSE cookies[k]]
  ELSE Append(cookies, c)

RECURSIVE StoreCookies(_, _)
StoreCookies(cookies, headers) ==
  IF headers = <<>> THEN cookies
  ELSE StoreCookies(StoreCookie(cookies, ParseSetCookie(Head(headers))),
                    Tail(headers))

\* the cookie header the browser sends: name=value; name=value
RECURSIVE CookieHeader(_)
CookieHeader(cookies) ==
  IF cookies = <<>> THEN <<>>
  ELSE Head(cookies).name \o <<61>> \o Head(cookies).value
         \o (IF Len(cookies) > 1 THEN <<59, 32>> \o CookieHeader(Tail(cookies))
             ELSE <<>>)

\* the browser: its cookies, and the preference each of the two cookies was
\* last set for (empty: none), which is no part of the cookies
NoCookies == [cookies |-> <<>>, translateLang |-> <<>>, injectNote |-> <<>>]

\* "English"
PrefEnglish == <<69, 110, 103, 108, 105, 115, 104>>
\* "Francais" (with c-cedilla)
PrefFrancais == <<70, 114, 97, 110, 231, 97, 105, 115>>
\* " a;b=c% "
PrefPunct == <<32, 97, 59, 98, 61, 99, 37, 32>>
\* "injectNote=x; translateLang=y"
PrefCookieLike == <<105, 110, 106, 101, 99, 116, 78, 111, 116, 101, 61, 120, 59, 32, 116, 114, 97, 110, 115, 108, 97, 116, 101, 76, 97, 110, 103, 61, 121>>
\* "%41+1"
PrefEscape == <<37, 52, 49, 43, 49>>
\* the euro sign, U+1F600 and !~*'()-_.
PrefMarks == <<8364, 128512, 33, 126, 42, 39, 40, 41, 45, 95, 46>>
\* "Sois bref"
PrefBref == <<83, 111, 105, 115, 32, 98, 114, 101, 102>>

Prefs == {PrefEnglish, PrefFrancais, PrefPunct, PrefCookieLike, PrefEscape, PrefMarks, PrefBref}

\* the payloads of set.prefs
Payloads ==
  [translateLang : {NoPref, Pref(TRUE, <<>>)} \cup {Pref(TRUE, v) : v \in Prefs},
   injectNote : {NoPref, Pref(TRUE, <<>>)} \cup {Pref(TRUE, v) : v \in Prefs}]

(***************************************************************************)
(* Phase 2: the middleware, and the routes behind it.                      *)
(***************************************************************************)
\* "/api/agent"
UrlAgent == <<47, 97, 112, 105, 47, 97, 103, 101, 110, 116>>
\* "/api/agent?x=1"
UrlAgentQuery == <<47, 97, 112, 105, 47, 97, 103, 101, 110, 116, 63, 120, 61, 49>>
\* "/api/agent/info"
UrlAgentSub == <<47, 97, 112, 105, 47, 97, 103, 101, 110, 116, 47, 105, 110, 102, 111>>
\* "/"
UrlHome == <<47>>
\* "/favicon.ico"
UrlFavicon == <<47, 102, 97, 118, 105, 99, 111, 110, 46, 105, 99, 111>>
\* "/_next/static/app.js"
UrlStatic == <<47, 95, 110, 101, 120, 116, 47, 115, 116, 97, 116, 105, 99, 47, 97, 112, 112, 46, 106, 115>>

Urls == {UrlAgent, UrlAgentQuery, UrlAgentSub, UrlHome, UrlFavicon, UrlStatic}
Methods == {"GET", "POST", "PUT", "DELETE", "HEAD", "OPTIONS"}

\* new URL(req.url).pathname: the url up to its query or fragment
Pathname(url) ==
  LET ends == {j \in 1..Len(url) : url[j] \in {63, 35}}
  IN  IF ends = {} THEN url ELSE SubSeq(url, 1, MinOf(ends) - 1)

\* config.matcher, /((?!_next/static|_next/image|favicon.ico).*): the
\* paths the middleware runs for (the dot of favicon.ico is any character)
Matcher(path) ==
  LET rest == Drop(path, 1)
      ico == <<102, 97, 118, 105, 99, 111, 110, 46, 105, 99, 111>>
  IN  /\ path # <<>> /\ path[1] = 47
      /\ ~StartsWith(rest, <<95, 110, 101, 120, 116, 47, 115, 116, 97, 116, 105, 99>>)
      /\ ~StartsWith(rest, <<95, 110, 101, 120, 116, 47, 105, 109, 97, 103, 101>>)
      /\ ~(Len(rest) >= Len(ico)
             /\ \A j \in 1..Len(ico) : j = 8 \/ rest[j] = ico[j])

\* what the middleware decides: it answers itself (next is FALSE), or lets
\* the request through with the header xfo on the response
MiddlewarePassAll(method, url) ==
  [next |-> TRUE, resp |-> NoResponse, xfo |-> "DENY"]
Middleware(method, url) ==
  IF Pathname(url) = UrlAgent /\ method # "POST"
    THEN [next |-> FALSE, resp |-> JsonError(405, "Method Not Allowed"),
          xfo |-> "DENY"]
  ELSE [next |-> TRUE, resp |-> NoResponse, xfo |-> "DENY"]

\* the route a request that was let through reaches: the handlers POST and
\* GET of /api/agent, "none" for a method the route exports no handler for,
\* "other" for the other paths
RouteOf(method, url) ==
  IF Pathname(url) # UrlAgent THEN "other"
  ELSE IF method \in {"POST", "GET"} THEN method
  ELSE IF method = "HEAD" THEN "GET"
  ELSE "none"

\* mw before any request: ran tells that the middleware ran, next that it
\* let the request through, xfo is the header x-frame-options the client
\* gets, handler the route handler the request reached
NoMiddleware ==
  [ran |-> FALSE, method |-> "", url |-> <<>>, next |-> FALSE, xfo |-> "",
   handler |-> "none"]

(***************************************************************************)
(* POST /api/tools: the Map memory and the actions context.set and         *)
(* context.get.  memory is the list of the entries of the Map, in the      *)
(* order of insertion.                                                     *)
(***************************************************************************)
MaxToolRequests == 3

\* the Map before any request
NoMemory == <<>>

JsNull == Val("null", <<>>, <<>>)
JsString(s) == Val("str", s, <<>>)

\* memory.has(key)
MapHas(m, key) == \E k \in 1..Len(m) : m[k].key = key

\* memory.set(key, value) that keeps the value of a key the Map has
MapSetOnce(m, key, value) ==
  IF MapHas(m, key) THEN m ELSE Append(m, [key |-> key, value |-> value])

\* memory.set(key, value)
MapSet(m, key, value) ==
  IF MapHas(m, key)
    THEN [k \in 1..Len(m) |-> IF m[k].key = key THEN [m[k] EXCEPT !.value = value]
                              ELSE m[k]]
  ELSE Append(m, [key |-> key, value |-> value])

\* memory.get(key) ?? null
MapGet(m, key) ==
  IF MapHas(m, key)
    THEN JsString(m[CHOOSE k \in 1..Len(m) : m[k].key = key].value)
  ELSE JsNull

\* String(value ?? "")
StringOrEmpty(v) == IF v.t \in {"undef", "null"} THEN <<>> ELSE JSToString(v)

\* json(data, status): error is the field error, value the field value
\* (undefined: the body has none)
ToolJson(status, error, value) == [status |-> status, error |-> error, value |-> value]

\* the handler after await req.json(): the Map it leaves and its response
ToolsPost(m, action, payload) ==
  IF action = "" THEN [memory |-> m, resp |-> ToolJson(400, "Missing action", Undefined)]
  ELSE IF action = "summarize"
    THEN [memory |-> m, resp |-> ToolJson(200, "", Undefined)]
  ELSE IF action = "context.set"
    THEN IF ~Truthy(payload.key)
           THEN [memory |-> m, resp |-> ToolJson(400, "Missing key", Undefined)]
         ELSE [memory |-> MapSet(m, payload.key, StringOrEmpty(payload.value)),
               resp |-> ToolJson(200, "", Undefined)]
  ELSE IF action = "context.get"
    THEN IF ~Truthy(payload.key)
           THEN [memory |-> m, resp |-> ToolJson(400, "Missing key", Undefined)]
         ELSE [memory |-> m, resp |-> ToolJson(200, "", MapGet(m, payload.key))]
  ELSE [memory |-> m, resp |-> ToolJson(400, "Unknown action", Undefined)]

\* the keys and values of the payloads: "a", "b", "x", 5
KeyA == JsString(<<97>>)
KeyB == JsString(<<98>>)
ValueX == JsString(<<120>>)
ValueFive == Val("num", <<53>>, <<>>)

\* the requests to /api/tools
ToolRequests ==
  [action : {"context.set"}, key : {KeyA}, value : {ValueX, ValueFive, Undefined}]
    \cup [action : {"context.set"}, key : {KeyB, Undefined}, value : {ValueX}]
    \cup [action : {"context.get"}, key : {KeyA, KeyB, Undefined, JsString(<<>>)},
          value : {Undefined}]
    \cup [action : {"", "summarize", "nope"}, key : {KeyA}, value : {ValueX}]

NoRequest ==
  [variant |-> "none", env |-> [key |-> "", url |-> "", mock |-> FALSE],
   req |-> [body |-> Body("notjson", FALSE, FALSE, <<>>, <<>>, <<>>), cookie |-> <<>>]]

RelayInit ==
  /\ rpc = "Idle"
  /\ rq = NoRequest
  /\ fetches = 0
  /\ upreq = NoUpstreamRequest
  /\ ups = NoUpstream
  /\ resp = NoResponse
  /\ jar = NoCookies
  /\ mw = NoMiddleware
  /\ memory = NoMemory
  /\ treq = <<>>

\* a POST reaches the handler
Receive(variant, env, body, cookie) ==
  /\ rpc = "Idle"
  /\ rpc' = "Received"
  /\ rq' = [variant |-> variant, env |-> env, req |-> [body |-> body, cookie |-> cookie]]
  /\ UNCHANGED <<fetches, upreq, ups, resp>>
  /\ UNCHANGED <<chatVars, sideVars>>

\* the handler returns before it calls fetch
ReturnEarly ==
  /\ rpc = "Received"
  /\ ~Before(rq).call
  /\ rpc' = "Responded"
  /\ resp' = Before(rq).resp
  /\ UNCHANGED <<rq, fetches, upreq, ups>>
  /\ UNCHANGED <<chatVars, sideVars>>

\* the handler calls fetch
CallUpstream ==
  /\ rpc = "Received"
  /\ Before(rq).call
  /\ rpc' = "CallingUpstream"
  /\ fetches' = fetches + 1
  /\ upreq' = Before(rq).upreq
  /\ UNCHANGED <<rq, ups, resp>>
  /\ UNCHANGED <<chatVars, sideVars>>

\* a handler that calls fetch again when the call rejects
UpstreamRetries(u) ==
  /\ rpc = "CallingUpstream"
  /\ IF u.rejects
       THEN rpc' = "Received" /\ UNCHANGED <<ups, resp>>
       ELSE rpc' = "Responded" /\ ups' = u /\ resp' = After(rq, u)
  /\ UNCHANGED <<rq, fetches, upreq>>
  /\ UNCHANGED <<chatVars, sideVars>>

\* the call of fetch settles and the handler runs to its return
UpstreamSettles(u) ==
  /\ rpc = "CallingUpstream"
  /\ rpc' = "Responded"
  /\ ups' = u
  /\ resp' = After(rq, u)
  /\ UNCHANGED <<rq, fetches, upreq>>
  /\ UNCHANGED <<chatVars, sideVars>>

\* the response is sent; the next request may come
Close ==
  /\ rpc = "Responded"
  /\ rpc' = "Idle"
  /\ rq' = NoRequest
  /\ fetches' = 0
  /\ upreq' = NoUpstreamRequest
  /\ ups' = NoUpstream
  /\ resp' = NoResponse
  /\ UNCHANGED <<chatVars, sideVars>>

\* POST /api/tools with the action set.prefs, between two requests to the
\* relay: the browser stores the cookies of the response
SetPrefs(payload) ==
  /\ rpc = "Idle"
  /\ jar' = [cookies |-> StoreCookies(jar.cookies, SetPrefsCookies(payload)),
             translateLang |->
               IF payload.translateLang.given /\ payload.translateLang.s # <<>>
                 THEN payload.translateLang.s
               ELSE jar.translateLang,
             injectNote |->
               IF payload.injectNote.given THEN payload.injectNote.s
               ELSE jar.injectNote]
  /\ UNCHANGED <<handlerVars, mw, memory, treq>>
  /\ UNCHANGED chatVars

\* a request reaches the phase-2 server: the middleware runs when the
\* matcher selects the path, and answers or lets the request through to
\* its route
Arrive(method, url, env, body) ==
  /\ rpc = "Idle"
  /\ \E ran \in {Matcher(Pathname(url))} :
       \E m \in {IF ran THEN Middleware(method, url)
                 ELSE [next |-> TRUE, resp |-> NoResponse, xfo |-> ""]} :
         \E route \in {IF m.next THEN RouteOf(method, url) ELSE "none"} :
           /\ mw' = [ran |-> ran, method |-> method, url |-> url,
                     next |-> m.next, xfo |-> m.xfo, handler |-> route]
           /\ rpc' = IF route = "POST" THEN "Received" ELSE "Responded"
           /\ rq' = IF route = "POST"
                      THEN [variant |-> "p2", env |-> env,
                            req |-> [body |-> body, cookie |-> <<>>]]
                    ELSE rq
           /\ resp' = IF ~m.next THEN m.resp
                      ELSE IF route = "POST" THEN resp
                      ELSE IF route = "GET"
                        THEN JsonError(405, "Method Not Allowed")
                      ELSE IF route = "none"
                        THEN [NoResponse EXCEPT !.status = 405]
                      ELSE [NoResponse EXCEPT !.status = 200, !.ctype = "text/html"]
  /\ UNCHANGED <<fetches, upreq, ups, jar, memory, treq>>
  /\ UNCHANGED chatVars

\* a POST reaches /api/tools: the handler awaits req.json()
ToolArrive(r) ==
  /\ Len(treq) < MaxToolRequests
  /\ treq' = Append(treq, [action |-> r.action, payload |-> [key |-> r.key, value |-> r.value],
                           pc |-> "parsing", ran |-> 0,
                           resp |-> ToolJson(0, "", Undefined)])
  /\ UNCHANGED <<handlerVars, jar, mw, memory>>
  /\ UNCHANGED chatVars

\* req.json() of request i settles and the handler runs to its return; ran
\* is the rank of this run among the runs so far
ToolRun(i) ==
  /\ treq[i].pc = "parsing"
  /\ \E out \in {ToolsPost(memory, treq[i].action, treq[i].payload)} :
       /\ memory' = out.memory
       /\ treq' = [treq EXCEPT ![i].pc = "done", ![i].resp = out.resp,
                               ![i].ran = 1 + Cardinality({j \in DOMAIN treq :
                                                             treq[j].pc = "done"})]
  /\ UNCHANGED <<handlerVars, jar, mw>>
  /\ UNCHANGED chatVars

(***************************************************************************)
(* Specifications.                                                         *)
(***************************************************************************)
Init == ChatInit /\ RelayInit

\* SpecStream: one turn of the chat page and nothing else on the page
StreamType == \E v \in Inputs : TypeInput(v)
StreamSend == calls = <<>> /\ SendMessage
StreamFetchOk == \E i \in DOMAIN calls, sid \in StreamScripts : FetchOk(i, sid)
StreamRead ==
  \E i \in DOMAIN calls :
    \E n \in 1..(Len(Wires[IF calls[i].sid = 0 THEN 1 ELSE calls[i].sid]) - calls[i].pos) :
      Read(i, n)
StreamReadDone == \E i \in DOMAIN calls : ReadDone(i)

NextStream ==
  \/ StreamType
  \/ StreamSend
  \/ StreamFetchOk
  \/ StreamRead
  \/ StreamReadDone

SpecStream == Init /\ [][NextStream]_vars

\* SpecChat: the turns of the chat page, the failures of the network and the
\* reset button
ChatType == \E v \in Inputs : TypeInput(v)
ChatSend == SendMessage
ChatFetchOk == \E i \in DOMAIN calls, sid \in ChatScripts : FetchOk(i, sid)
ChatFetchFails == \E i \in DOMAIN calls, msg \in FailTexts : FetchFails(i, msg)
ChatRead ==
  \E i \in DOMAIN calls :
    \E n \in {ChatChunk, Len(Wires[IF calls[i].sid = 0 THEN 1 ELSE calls[i].sid]) - calls[i].pos} :
      Read(i, n)
ChatReadDone == \E i \in DOMAIN calls : ReadDone(i)
ChatReadThrows == \E i \in DOMAIN calls, msg \in FailTexts : ReadThrows(i, msg)
ChatReset == Reset

NextChat ==
  \/ ChatType
  \/ ChatSend
  \/ ChatFetchOk
  \/ ChatFetchFails
  \/ ChatRead
  \/ ChatReadDone
  \/ ChatReadThrows
  \/ ChatReset

SpecChat == Init /\ [][NextChat]_vars

\* SpecTools: the turns of the chat page, its tool buttons and its reset
\* button, on a network that does not fail
ToolsType == \E v \in ToolsInputs : TypeInput(v)
ToolsSend == SendMessage
ToolsFetchOk == \E i \in DOMAIN calls, sid \in ChatScripts : FetchOk(i, sid)
ToolsRead ==
  \E i \in DOMAIN calls :
    \E n \in {ChatChunk, Len(Wires[IF calls[i].sid = 0 THEN 1 ELSE calls[i].sid]) - calls[i].pos} :
      Read(i, n)
ToolsReadDone == \E i \in DOMAIN calls : ReadDone(i)
ToolsClick == \E t \in ToolsTools : ToolClick(t)
ToolsAnswers ==
  \E k \in DOMAIN tools, present \in BOOLEAN, text \in ToolTexts :
    (present \/ text = <<>>) /\ ToolAnswers(k, present, text)
ToolsFails == \E k \in DOMAIN tools : ToolFails(k)
ToolsReset == Reset

NextTools ==
  \/ ToolsType
  \/ ToolsSend
  \/ ToolsFetchOk
  \/ ToolsRead
  \/ ToolsReadDone
  \/ ToolsClick
  \/ ToolsAnswers
  \/ ToolsFails
  \/ ToolsReset

SpecTools == Init /\ [][NextTools]_vars

\* SpecRelay: requests to the relay handlers, one after the other
RelayReceive ==
  \E variant \in Variants, env \in Envs, body \in Bodies, cookie \in Cookies :
    Receive(variant, env, body, cookie)
RelayUpstreamSettles == \E u \in Upstreams : UpstreamSettles(u)

NextRelay ==
  \/ RelayReceive
  \/ ReturnEarly
  \/ CallUpstream
  \/ RelayUpstreamSettles
  \/ Close

SpecRelay == Init /\ [][NextRelay]_vars

\* SpecPrefs: the preferences are set with set.prefs, and the browser sends
\* its cookies with the requests to the phase-3 streaming handlers
PrefsSet == \E payload \in Payloads : SetPrefs(payload)
PrefsReceive ==
  \E variant \in {"p3a", "p3b"}, env \in Envs :
    Receive(variant, env,
            Body("object", TRUE, TRUE, <<Msg("user", Hi)>>, <<>>, <<>>),
            CookieHeader(jar.cookies))

NextPrefs ==
  \/ PrefsSet
  \/ PrefsReceive
  \/ ReturnEarly
  \/ CallUpstream
  \/ RelayUpstreamSettles
  \/ Close

SpecPrefs == Init /\ [][NextPrefs]_vars

\* SpecMiddleware: requests to the phase-2 server, one after the other
MiddlewareArrive ==
  \E method \in Methods, url \in Urls, env \in Envs,
     body \in {Body("object", TRUE, TRUE, <<Msg("user", Hi)>>, <<>>, <<>>),
               Body("notjson", FALSE, FALSE, <<>>, <<>>, <<>>)} :
    Arrive(method, url, env, body)

NextMiddleware ==
  \/ MiddlewareArrive
  \/ ReturnEarly
  \/ CallUpstream
  \/ RelayUpstreamSettles
  \/ Close

SpecMiddleware == Init /\ [][NextMiddleware]_vars

\* SpecStore: requests to /api/tools that overlap
StoreArrive == \E r \in ToolRequests : ToolArrive(r)
StoreRun == \E i \in DOMAIN treq : ToolRun(i)

NextStore ==
  \/ StoreArrive
  \/ StoreRun

SpecStore == Init /\ [][NextStore]_vars

\* SpecChat2: the component Chat of phase 2
Chat2Type == Len(calls) < MaxOps /\ Page2Type(<<32, 72, 105>>)
Chat2Send == \E via \in {"button", "enter"} : Page2Send(via)
Chat2Summary == \E via \in {"button", "action"} : Page2Summary(via)
Chat2FetchOk == \E i \in DOMAIN calls : Page2FetchOk(i, ReplyTo(calls[i].kind))
Chat2FetchFails == \E i \in DOMAIN calls : Page2FetchFails(i)
Chat2Read ==
  \E i \in DOMAIN calls :
    \E n \in 1..(Len(Replies[IF calls[i].rid = 0 THEN 1 ELSE calls[i].rid]) - calls[i].pos) :
      Page2Read(i, n)
Chat2ReadDone == \E i \in DOMAIN calls : Page2ReadDone(i)
Chat2ReadThrows == \E i \in DOMAIN calls : Page2ReadThrows(i)

NextChat2 ==
  \/ Chat2Type
  \/ Chat2Send
  \/ Chat2Summary
  \/ Chat2FetchOk
  \/ Chat2FetchFails
  \/ Chat2Read
  \/ Chat2ReadDone
  \/ Chat2ReadThrows
  \/ Page2Reset

SpecChat2 == Init /\ [][NextChat2]_vars


(***************************************************************************)
(* The stream loop of the chat page (C1, C2), under SpecStream.            *)
(***************************************************************************)
\* the content the read loop gives the placeholder when the bytes of the
\* script sid come as one chunk
OneChunk(sid) ==
  Last(ReadStep(<<Msg("assistant", <<>>)>>, <<>>, DecoderInit, Wires[sid]).messages).content

\* C1: chunk-boundary invariance.  However the bytes of the stream were cut
\* into chunks (inside a character, a line or a JSON token), when the stream
\* has ended the content of the assistant message of the turn is the content
\* the same bytes give as one single chunk.
C1_ChunkInvariance ==
  turn.st = "ended" => messages[turn.idx].content = OneChunk(turn.sid)

\* a turn has ended with some text, and chunks of it ended inside a
\* character and inside a line
C1_Witness ==
  /\ turn.st = "ended"
  /\ turn.midChar
  /\ turn.midLine
  /\ messages[turn.idx].content # <<>>

\* a script made of newline-terminated events and blank lines, then
\* data: [DONE], then blank lines
IsEventStream(sc) ==
  \E d \in DOMAIN sc :
    /\ sc[d].k = "done"
    /\ \A i \in DOMAIN sc :
         /\ i < d => sc[i].k \in {"delta", "blank"}
         /\ i > d => sc[i].k = "blank"

\* c_1 c_2 ... c_n: the fragments of the events of a script, in its order
Fragments(sc) ==
  Flatten([i \in 1..Len(sc) |-> IF sc[i].k = "delta" THEN sc[i].c ELSE <<>>])

\* C2: when the stream of a turn carries the events of the fragments
\* c_1 ... c_n, each ended by a newline, then data: [DONE], and nothing else
\* happens on the page, the final content of the assistant message of the
\* turn is c_1 c_2 ... c_n: every fragment once, in the order of the stream.
C2_FragmentsInOrder ==
  (turn.st = "ended" /\ IsEventStream(Scripts[turn.sid]))
    => messages[turn.idx].content = Fragments(Scripts[turn.sid])

\* "Hel" then "lo" gave "Hello"
C2_Witness ==
  /\ turn.st = "ended"
  /\ turn.sid = 1
  /\ messages[turn.idx].content = <<72, 101, 108, 108, 111>>

(***************************************************************************)
(* The turns of the chat page (C3, C5) under SpecChat, and its tool        *)
(* buttons (C4) under SpecTools.                                           *)
(***************************************************************************)
\* the calls of sendMessage whose request is sent or whose stream is read
InFlight == {i \in DOMAIN calls : calls[i].pc \in {"fetching", "reading"}}

\* C3: in every reachable state at most one request of sendMessage is in
\* flight, and loading is true exactly while one is: it is set before the
\* request and cleared only when the turn has ended.
C3_OneInFlight ==
  /\ Cardinality(InFlight) <= 1
  /\ loading <=> InFlight # {}

\* a first turn has ended and the stream of a second one is being read
C3_Witness ==
  /\ Len(calls) = 2
  /\ calls[1].pc = "done"
  /\ calls[2].pc = "reading"
  /\ loading

\* a call of sendMessage went once through the body of its read loop
IsReadStep ==
  \E i \in DOMAIN calls :
    /\ calls[i].pc = "reading"
    /\ calls'[i].pc = "reading"
    /\ calls'[i].pos > calls[i].pos

\* the places of the conversation a step changes
Changed ==
  {j \in DOMAIN messages : j \notin DOMAIN messages' \/ messages'[j] # messages[j]}

C5_AppendOnly ==
  [][ \/ messages' = <<>>
      \/ /\ Len(messages') >= Len(messages)
         /\ \A j \in 1..(Len(messages) - 1) : messages'[j] = messages[j]
    ]_vars

(***************************************************************************)
(* The relay handlers (C6 to C10), under SpecRelay.                        *)
(***************************************************************************)
\* the handler has returned its response to a POST to /api/agent
Answered == rpc = "Responded" /\ rq.variant \in AgentVariants

\* C6: whatever the body of a POST to /api/agent, when the API key is not in
\* the server configuration the response has status 500 and a JSON body with
\* a field error, and fetch is not called for the request.
C6_MissingKey ==
  (Answered /\ rq.env.key = "")
    => /\ resp.status = 500
       /\ resp.ctype = "application/json"
       /\ resp.error # ""
       /\ fetches = 0

\* C7: when the upstream endpoint answers a status s that is not a success,
\* with the body text b, every /api/agent handler answers 502 with a JSON body
\* { error, status: s, body: b } (b is "" when the text cannot be read), and
\* streams nothing of the upstream response.
C7_UpstreamStatus ==
  (Answered /\ fetches = 1 /\ ~ups.rejects /\ ~(ups.status \in 200..299))
    => /\ resp.status = 502
       /\ resp.ctype = "application/json"
       /\ resp.error # ""
       /\ resp.hasUp
       /\ resp.ustatus = ups.status
       /\ resp.ubody = (IF ups.textFails THEN "" ELSE ups.text)
       /\ resp.stream = "none"
       /\ ~resp.hasContent

\* the streaming handler of phase 3 answered to the status 429 of the
\* upstream endpoint and to its body "rate limited"
C7_Witness ==
  /\ Answered
  /\ rq.variant = "p3a"
  /\ ups.status = 429
  /\ resp.status = 502
  /\ resp.ubody = "rate limited"

\* C8: when the call of the upstream endpoint rejects (network error), the
\* /api/agent handlers answer 502 with a JSON error, not the 500 of the
\* configuration errors nor the 400 of the validation errors.
C8_NetworkError ==
  (Answered /\ fetches = 1 /\ ups.rejects)
    => /\ resp.status = 502
       /\ resp.ctype = "application/json"
       /\ resp.error # ""

\* the upstream endpoint answered a success status and something else than a
\* completion with a text: a body that is not JSON, or JSON where
\* choices[0].message.content is missing or empty
UnexpectedShape(u) ==
  /\ ~u.rejects
  /\ u.status \in 200..299
  /\ ~u.hasBody \/ u.payload # "completion"

\* C9: in the handlers that do not stream (phase 2, the JSON handler of
\* phase 3, /api/copilot), when the upstream endpoint answers a success
\* status and an unexpected shape, the response is 502 and carries the
\* payload received: not 200, not 400, not 500.
C9_UnexpectedShape ==
  (rpc = "Responded" /\ rq.variant \in {"p2", "p3c", "copilot"} /\ fetches = 1
     /\ UnexpectedShape(ups))
    => /\ resp.status = 502
       /\ resp.raw # "none"

\* the body of a request is not JSON, or has no messages, or messages is not
\* an array
MalformedBody(b) == ~(b.kind = "object" /\ b.hasMessages /\ b.isArray)

\* C10 as stated: a POST to /api/agent with a malformed body is answered 400
\* with a JSON error and no call of the upstream endpoint, in phase 2 and in
\* phase 3.
C10_MalformedIs400 ==
  (Answered /\ MalformedBody(rq.req.body))
    => /\ resp.status = 400
       /\ resp.ctype = "application/json"
       /\ resp.error # ""
       /\ fetches = 0

\* C10 as amended: the handler of phase 2 answers a malformed body with 400,
\* a JSON error and no call of the upstream endpoint.  The handlers of phase
\* 3 never answer 400: they read a malformed body as an empty conversation
\* and, unless they stop on a 500 before the call (no API key, a cookie that
\* cannot be decoded), call the upstream endpoint once with the user message
\* prompt of the body, or "Hello" when it has none.
C10_MalformedBody ==
  /\ (rpc = "Responded" /\ rq.variant = "p2" /\ MalformedBody(rq.req.body))
       => /\ resp.status = 400
          /\ resp.ctype = "application/json"
          /\ resp.error # ""
          /\ fetches = 0
  /\ (rpc = "Responded" /\ rq.variant \in Phase3Variants /\ MalformedBody(rq.req.body))
       => /\ resp.status # 400
          /\ fetches <= 1
          /\ fetches = 0 => resp.status = 500 /\ resp.error # ""
          /\ fetches = 1 =>
               upreq.msgs = <<Msg("user",
                                  IF rq.req.body.kind = "object" /\ rq.req.body.prompt # <<>>
                                    THEN rq.req.body.prompt ELSE Hello)>>

\* a streaming handler of phase 3 got a body that is not JSON, called the
\* upstream endpoint with "Hello" and passed its stream on
C10_Witness ==
  /\ rpc = "Responded"
  /\ rq.variant = "p3b"
  /\ rq.req.body.kind = "notjson"
  /\ fetches = 1
  /\ upreq.msgs = <<Msg("user", Hello)>>
  /\ resp.status = 200

(***************************************************************************)
(* The relay handlers (C11, C12) and the preferences they read from the    *)
(* cookies (C18 to C20), under SpecRelay.                                  *)
(***************************************************************************)
\* C11: when the upstream endpoint answers a success status with a body to a
\* streaming handler of phase 3, the body of the response is the upstream
\* stream itself (the handler reads nothing of it and encodes nothing), the
\* status is 200 and the headers are content-type text/event-stream,
\* cache-control no-store and connection keep-alive.
C11_StreamThrough ==
  (rpc = "Responded" /\ rq.variant \in {"p3a", "p3b"} /\ fetches = 1
     /\ ~ups.rejects /\ ups.status \in 200..299 /\ ups.hasBody)
    => /\ resp.stream = "upstream"
       /\ resp.status = 200
       /\ resp.ctype = "text/event-stream"
       /\ resp.cache = "no-store"
       /\ resp.conn = "keep-alive"
       /\ ~resp.hasContent
       /\ resp.content = <<>>
       /\ resp.error = ""

\* the second streaming handler of phase 3 passed on the stream of a
\* successful upstream answer
C11_Witness ==
  /\ rpc = "Responded"
  /\ rq.variant = "p3b"
  /\ fetches = 1
  /\ ups.status = 200
  /\ ups.hasBody
  /\ resp.stream = "upstream"
  /\ resp.ctype = "text/event-stream"

\* the terminal states of the state machine of a request: a configuration
\* error before any call, an upstream error after the call, or the success
\* response (a stream or a single shot) of a call that succeeded
ConfigErrorEnd ==
  /\ fetches = 0
  /\ rq.env.key = "" \/ (rq.variant = "p2" /\ rq.env.url = "")
  /\ resp.status = 500
UpstreamErrorEnd ==
  /\ fetches = 1
  /\ ups.rejects \/ ~(ups.status \in 200..299)
  /\ resp.status >= 400
ClosedEnd ==
  /\ fetches = 1
  /\ ~ups.rejects
  /\ ups.status \in 200..299
  /\ resp.status = 200

\* C12 as stated: a request to /api/agent makes at most one call of fetch and
\* ends in exactly one of ConfigError, UpstreamError and Closed.
C12_StateMachine ==
  Answered => /\ fetches <= 1
              /\ ConfigErrorEnd \/ UpstreamErrorEnd \/ ClosedEnd

\* the ways a request to /api/agent ends: an error answered locally, an
\* error answered after the call, the success response after the call
EndsLocally ==
  /\ fetches' = 0
  /\ resp'.status \in (IF rq.variant = "p2" THEN {400, 500} ELSE {500})
  /\ resp'.ctype = "application/json"
  /\ resp'.error # ""
  /\ resp'.stream = "none"
EndsInError ==
  /\ fetches' = 1
  /\ resp'.status \in {400, 500, 502}
  /\ resp'.ctype = "application/json"
  /\ resp'.error # ""
  /\ resp'.stream = "none"
EndsInSuccess ==
  /\ fetches' = 1
  /\ ~ups'.rejects
  /\ ups'.status \in 200..299
  /\ resp'.status = 200
  /\ resp'.error = ""
  /\ resp'.stream # "none" \/ resp'.hasContent

\* C12 as amended: a request to /api/agent makes at most one call of fetch,
\* with no retry on any failure, and gets exactly one response.  It goes
\* Received -> (local error | CallingUpstream) -> (error | success) -> Closed:
\* it ends before any call with a JSON error (400 for a body phase 2
\* rejects, 500 otherwise), or after its one call with a JSON error (400, 500
\* or 502) or with the 200 response, a stream or a single shot.
C12_OneCallOneResponse ==
  [][ /\ fetches' <= 1
      /\ fetches' # fetches =>
           \/ rpc = "Received" /\ rpc' = "CallingUpstream" /\ fetches' = 1
           \/ rpc = "Responded" /\ rpc' = "Idle"
      /\ rpc = "CallingUpstream" => rpc' = "Responded"
      /\ rpc = "Responded" => rpc' = "Idle"
      /\ resp' # resp =>
           \/ rpc # "Responded" /\ rpc' = "Responded"
           \/ rpc = "Responded" /\ rpc' = "Idle"
      /\ (rpc # "Responded" /\ rpc' = "Responded" /\ rq.variant \in AgentVariants) =>
           \/ rpc = "Received" /\ EndsLocally
           \/ rpc = "CallingUpstream" /\ EndsInError
           \/ rpc = "CallingUpstream" /\ EndsInSuccess
    ]_vars

\* the call of fetch rejected and the handler of phase 2 answered, having
\* called once
C12_Witness ==
  /\ rpc = "Responded"
  /\ rq.variant = "p2"
  /\ fetches = 1
  /\ ups.rejects
  /\ resp.status = 400

(***************************************************************************)
(* The lines of the stream loop (C13 to C15), under SpecStream.            *)
(***************************************************************************)
\* the call i of sendMessage goes once through the body of its read loop
ReadsOn(i) ==
  /\ calls[i].pc = "reading"
  /\ calls'[i].pc = "reading"
  /\ calls'[i].pos > calls[i].pos

\* the complete lines that pass of the loop goes over
StepLines(i) ==
  Bind(SubSeq(Wires[calls[i].sid], calls[i].pos + 1, calls'[i].pos), LAMBDA chunk :
  Bind(Decode(calls[i].dec, chunk), LAMBDA r :
  Bind(calls[i].buffer \o r.out, LAMBDA text :
    Front(Split(text, NewLine)))))

\* the line data: [DONE], an empty line, a line of spaces, tabs and
\* carriage returns
QuietLine(l) == l = DoneLine \/ \A j \in 1..Len(l) : l[j] \in {9, 13, 32}

\* C13: the line data: [DONE] and the blank lines produce no fragment,
\* wherever they are in the stream: a pass of the read loop leaves the
\* conversation as the same lines without them leave it, so unchanged when
\* there is no other line.
C13_QuietLines ==
  [][ \A i \in DOMAIN calls :
        ReadsOn(i) =>
          \E ls \in {StepLines(i)} :
            \E kept \in {SelectSeq(ls, LAMBDA l : ~QuietLine(l))} :
              \E want \in {ProcessLines(messages, kept, 1)} :
                /\ messages' = want
                /\ kept = <<>> => messages' = messages
    ]_vars

\* the stream with a line of spaces, a line that is a carriage return and
\* data: [DONE] between two fragments has ended with both fragments
C13_Witness ==
  /\ turn.st = "ended"
  /\ turn.sid = 8
  /\ messages[turn.idx].content = <<97, 98>>

\* the lines of the scripts 4 and 9 that start with data: and do not carry
\* a fragment: what follows is not JSON, or is JSON without
\* choices[0].delta.content
MalformedLines ==
  {Scripts[4][2].c, Scripts[4][3].c}
    \cup {Scripts[9][k].c : k \in 1..4}

\* C14: a line that starts with data: and whose rest is not JSON, or JSON
\* of another shape, does not end the loop and changes nothing: a pass of
\* the read loop leaves the conversation as the same lines without it leave
\* it, the call goes on reading, and at the end of the stream the fragments
\* of the later lines are in the assistant message and no error message is.
C14_MalformedLines ==
  [][ /\ \A i \in DOMAIN calls :
           ReadsOn(i) =>
             \E ls \in {StepLines(i)} :
               \E kept \in {SelectSeq(ls, LAMBDA l : l \notin MalformedLines)} :
                 \E want \in {ProcessLines(messages, kept, 1)} :
                   /\ messages' = want
                   /\ kept = <<>> => messages' = messages
      /\ (turn'.st = "ended" /\ turn'.sid \in {4, 9}) =>
           /\ Len(messages') = 2
           /\ messages'[2] =
                Msg("assistant", IF turn'.sid = 4 THEN <<120>> ELSE <<122>>)
    ]_vars

\* the stream with the lines data: {malformed json and data: null has ended
\* with the fragment that follows them
C14_Witness ==
  /\ turn.st = "ended"
  /\ turn.sid = 4
  /\ messages[turn.idx].content = <<120>>
  /\ Len(messages) = 2

\* a script of events, blank lines and data: [DONE] lines in any order
OnlyEvents(sc) ==
  \A k \in DOMAIN sc :
    \/ sc[k].k \in {"delta", "blank", "done"}
    \/ sc[k].k = "raw" /\ \A j \in DOMAIN sc[k].c : sc[k].c[j] \in {9, 13, 32}

\* C15: when the transport reports the end of the stream the turn ends
\* cleanly, whether data: [DONE] was sent or not: the call returns, loading
\* is false, no error message is appended, and the assistant message holds
\* the fragments of the lines received, those after a data: [DONE] too.
C15_CleanEnd ==
  (calls # <<>> /\ calls[1].pc = "done")
    => /\ turn.st = "ended"
       /\ ~loading
       /\ Len(messages) = 2
       /\ messages[1].role = "user"
       /\ messages[2].role = "assistant"
       /\ OnlyEvents(Scripts[turn.sid])
            => messages[2].content = Fragments(Scripts[turn.sid])

\* the stream of two fragments that closes without data: [DONE] has ended
C15_Witness ==
  /\ calls # <<>>
  /\ calls[1].pc = "done"
  /\ turn.sid = 6
  /\ ~loading
  /\ messages[2].content = <<97, 98>>

(***************************************************************************)
(* Fragments with no message to take them (C16) and the turns that fail    *)
(* (C17), under SpecChat.                                                  *)
(***************************************************************************)
\* C16: when the conversation does not end with an assistant message (it is
\* empty after a reset during the stream, or its last message is a user
\* message), a pass of the read loop drops the fragments it finds: the
\* conversation stays as it is and the call goes on reading.
C16_FragmentDropped ==
  [][ \A i \in DOMAIN calls :
        (ReadsOn(i) /\ (messages = <<>> \/ messages[Len(messages)].role # "assistant"))
          => /\ messages' = messages
             /\ calls'[i].pc = "reading"
             /\ loading' = loading
    ]_vars

\* the conversation was reset before the first chunk of the stream of two
\* fragments: the pass over the first fragment found an empty conversation
\* and left it empty
C16_Witness ==
  /\ turn.lost
  /\ turn.sid = 6
  /\ messages = <<>>
  /\ calls[Len(calls)].pc = "reading"
  /\ calls[Len(calls)].pos \in 46..91

\* the messages Erreur: ... of a conversation
ErrorMessages(m) ==
  {j \in DOMAIN m : m[j].role = "assistant" /\ StartsWith(m[j].content, ErreurPrefix)}

\* C17: when a turn fails (the relay answers a status that is not ok, or no
\* body, or a read of the stream throws), loading returns to false and one
\* message Erreur: <details> is appended at the end; an assistant message of
\* the turn that had received text stays as it was, right before the error
\* message, and a placeholder that had received none is removed, so that the
\* user message of the turn is right before the error message.
C17_FailedTurn ==
  [][ (turn.st = "streaming" /\ turn'.st = "failed") =>
        /\ loading' = FALSE
        /\ messages' # <<>>
        /\ Len(messages') \in ErrorMessages(messages')
        /\ Len(messages'[Len(messages')].content) > Len(ErreurPrefix)
        /\ Cardinality(ErrorMessages(messages')) = Cardinality(ErrorMessages(messages)) + 1
        /\ (turn.idx # 0 /\ messages[turn.idx].content # <<>>) =>
             /\ Len(messages') >= 3
             /\ messages'[Len(messages') - 1] = messages[turn.idx]
             /\ messages'[Len(messages') - 2] = messages[turn.idx - 1]
        /\ (turn.idx # 0 /\ messages[turn.idx].content = <<>>) =>
             /\ Len(messages') >= 2
             /\ messages'[Len(messages') - 1] = messages[turn.idx - 1]
             /\ messages'[Len(messages') - 1].role = "user"
    ]_vars

\* a read of the stream threw after the first fragment: the assistant
\* message keeps it and the error message follows
C17_Witness ==
  /\ turn.st = "failed"
  /\ ~loading
  /\ Len(messages) = 3
  /\ messages[2] = Msg("assistant", <<97>>)
  /\ 3 \in ErrorMessages(messages)

(***************************************************************************)
(* The preferences (C18 to C20).  A cookie header is a list of pairs       *)
(* name=value separated by semicolons.                                     *)
(***************************************************************************)
\* the name of a pair of a cookie header
PairName(pair) ==
  LET t == Trim(pair)
      eqs == {j \in 1..Len(t) : t[j] = 61}
  IN  IF eqs = {} THEN t ELSE SubSeq(t, 1, MinOf(eqs) - 1)

\* the names of the cookies of a header
CookieNames(cookie) ==
  IF cookie = <<>> THEN {}
  ELSE LET pairs == Split(cookie, 59)
       IN  {PairName(pairs[k]) : k \in 1..Len(pairs)}

\* translateLang and injectNote
KnownNames == {Front(TranslateLangEq), Front(InjectNoteEq)}

\* C18: when the request to a phase-3 /api/agent handler has no cookie
\* header, or only cookies whose names are not exactly translateLang or
\* injectNote, the system message sent upstream is the default prefix
\* "Tu es un assistant utile et concis.".
C18_UnrelatedCookies ==
  (rpc \in {"CallingUpstream", "Responded"} /\ fetches = 1
     /\ rq.variant \in Phase3Variants
     /\ CookieNames(rq.req.cookie) \cap KnownNames = {})
    => upreq.system = DefaultSystem

\* the value of a pair of a cookie header
PairValue(pair) ==
  LET t == Trim(pair)
      eqs == {j \in 1..Len(t) : t[j] = 61}
  IN  IF eqs = {} THEN <<>> ELSE Trim(SubSeq(t, MinOf(eqs) + 1, Len(t)))

\* the value of the cookie called name (empty: the header has none)
Directive(cookie, name) ==
  IF cookie = <<>> THEN <<>>
  ELSE LET pairs == Split(cookie, 59)
           hits == {k \in 1..Len(pairs) : PairName(pairs[k]) = name}
       IN  IF hits = {} THEN <<>> ELSE PairValue(pairs[MinOf(hits)])

\* the system message the two directives of a header ask for
DirectedSystem(cookie) ==
  LET lang == Directive(cookie, Front(TranslateLangEq))
      note == Directive(cookie, Front(InjectNoteEq))
      sentence == TranslateOpen \o DecodeURIComponent(lang).s \o <<46>>
  IN  IF lang = <<>> /\ note = <<>> THEN DefaultSystem
      ELSE IF note = <<>> THEN sentence
      ELSE IF lang = <<>> THEN DecodeURIComponent(note).s
      ELSE sentence \o <<32>> \o DecodeURIComponent(note).s

\* C19: in the phase-3 streaming handlers each directive that is present is
\* percent-decoded; a translateLang value L is rendered as
\* "Tu dois repondre en L." (e-acute), an injectNote value is used verbatim
\* after decoding; when both are present the system message is the
\* translation sentence, one space and the note, in that order; the default
\* prefix is used only when neither is present.
C19_Directives ==
  (rpc \in {"CallingUpstream", "Responded"} /\ fetches = 1
     /\ rq.variant \in {"p3a", "p3b"})
    => upreq.system = DirectedSystem(rq.req.cookie)

\* what the handler extracts from the cookie header of the request for the
\* directive nameEq
Extracted(nameEq) == DecodeURIComponent(CookieValue(rq.req.cookie, nameEq))

\* the system message for the preferences lang and note (empty: none)
PrefsSystem(lang, note) ==
  IF lang = <<>> /\ note = <<>> THEN DefaultSystem
  ELSE IF note = <<>> THEN TranslateOpen \o lang \o <<46>>
  ELSE IF lang = <<>> THEN note
  ELSE TranslateOpen \o lang \o <<46, 32>> \o note

\* C20: the cookie set.prefs emits for translateLang=v (for injectNote=v),
\* v not empty, sent back alone or with the other preference cookie, is
\* extracted and decoded by the phase-3 streaming handler to exactly v, and
\* neither cookie changes what is read of the other: the system message
\* sent upstream is the one of the two preferences that were set.
C20_RoundTrip ==
  (rpc # "Idle" /\ rq.variant \in {"p3a", "p3b"})
    => /\ ~Extracted(TranslateLangEq).throws
       /\ Extracted(TranslateLangEq).s = jar.translateLang
       /\ ~Extracted(InjectNoteEq).throws
       /\ Extracted(InjectNoteEq).s = jar.injectNote
       /\ rq.env.key # "" =>
            /\ rpc = "Received" => Before(rq).call
            /\ rpc # "Received" =>
                 fetches = 1 /\ upreq.system = PrefsSystem(jar.translateLang, jar.injectNote)

C20_Witness ==
  /\ rpc = "CallingUpstream"
  /\ jar.translateLang = PrefPunct
  /\ jar.injectNote = PrefCookieLike
  /\ Len(jar.cookies) = 2
  /\ jar.cookies[1].name = Front(InjectNoteEq)
  /\ upreq.system = TranslateOpen \o PrefPunct \o <<46, 32>> \o PrefCookieLike

(***************************************************************************)
(* The key of the configuration (C21).                                     *)
(***************************************************************************)
\* the request rq with the key k configured in place of its own
WithKey(k) == [rq EXCEPT !.env.key = k]

\* the response to request r when the upstream endpoint does u
ResponseTo(r, u) == IF Before(r).call THEN After(r, u) ELSE Before(r).resp

\* the texts of a response
ResponseTexts(r) == {r.error, r.ubody, r.ctype, r.cache, r.conn}

\* C21: no response of /api/agent depends on or contains the configured API
\* key: with any other key configured and the same upstream behaviour the
\* response is the same, and the upstream request differs in nothing but
\* its Authorization header, which carries the key.
C21_KeyNotExposed ==
  (Answered /\ rq.env.key \in Keys)
    => /\ rq.env.key \notin ResponseTexts(resp)
       /\ fetches = 1 => upreq.auth = rq.env.key
       /\ \A k \in Keys :
            /\ resp = ResponseTo(WithKey(k), ups)
            /\ Before(WithKey(k)).call = (fetches = 1)
            /\ fetches = 1 => Before(WithKey(k)).upreq = [upreq EXCEPT !.auth = k]

C21_Witness ==
  /\ Answered
  /\ rq.env.key = "sk-other"
  /\ fetches = 1
  /\ upreq.auth = "sk-other"
  /\ resp.status = 502
  /\ resp.ubody = "rate limited"
  /\ resp = ResponseTo(WithKey("sk-test"), ups)

(***************************************************************************)
(* The middleware of phase 2 (C22).                                        *)
(***************************************************************************)
\* C22: a request to the path /api/agent whose method is not POST is
\* answered 405 "Method Not Allowed" by the middleware and reaches no route
\* handler, and every request the middleware lets through gets the header
\* x-frame-options: DENY on its response.
C22_MethodCheck ==
  (rpc # "Idle" /\ mw.ran)
    => /\ (Pathname(mw.url) = UrlAgent /\ mw.method # "POST")
            => /\ rpc = "Responded"
               /\ ~mw.next
               /\ mw.handler = "none"
               /\ resp.status = 405
               /\ resp.error = "Method Not Allowed"
               /\ fetches = 0
       /\ mw.next => mw.xfo = "DENY"
       /\ (mw.method = "POST" /\ Pathname(mw.url) = UrlAgent)
            => mw.next /\ mw.handler = "POST" /\ rq.variant = "p2"

C22_Witness ==
  /\ rpc = "Responded"
  /\ mw.ran
  /\ mw.method = "DELETE"
  /\ mw.url = UrlAgentQuery
  /\ resp.status = 405
  /\ mw.handler = "none"

(***************************************************************************)
(* The mock mode of phase 2 (C23).                                         *)
(***************************************************************************)
\* USE_AGENT_MOCK=true, or no upstream URL or key configured
MockMode(env) == env.mock \/ env.url = "" \/ env.key = ""

\* C23: in phase 2, with USE_AGENT_MOCK=true or without the upstream URL or
\* key, a POST with a messages array is answered with a simulated stream and
\* no upstream call; otherwise the request is sent to AGENT_API_URL with
\* Authorization: Bearer <key>.
C23_MockMode ==
  (rq.variant = "p2" /\ IsArray(rq.req.body)
     /\ rpc \in {"CallingUpstream", "Responded"})
    => IF MockMode(rq.env)
         THEN /\ fetches = 0
              /\ resp.status = 200
              /\ resp.stream = "encoded"
       ELSE /\ fetches = 1
            /\ upreq.url = rq.env.url
            /\ upreq.auth = rq.env.key

(***************************************************************************)
(* The messages sent upstream (C24).                                       *)
(***************************************************************************)
\* the content of the last message of items whose role is user (empty:
\* there is none)
LastOfUser(items) ==
  LET at == {i \in 1..Len(items) : items[i].role = "user"}
  IN  IF at = {} THEN <<>>
      ELSE items[CHOOSE i \in at : \A j \in at : j <= i].content

\* the content of the user message the handler of request r sends upstream
ForwardedContent(r) ==
  LET body == r.req.body
      last == IF body.kind = "object" /\ body.hasMessages /\ body.isArray
                THEN LastOfUser(body.items)
              ELSE <<>>
  IN  IF r.variant = "p2" \/ last # <<>> THEN last
      ELSE IF body.kind = "object" /\ body.prompt # <<>> THEN body.prompt
      ELSE Hello

\* C24: the upstream request of /api/agent (phase 2 and phase 3) holds the
\* system message and then one user message, whose content is the content of
\* the last user message received (in phase 3 body.prompt, then "Hello",
\* when there is none or it is empty); nothing else of the history is sent.
C24_TwoMessages ==
  (rpc \in {"CallingUpstream", "Responded"} /\ fetches = 1
     /\ rq.variant \in AgentVariants)
    => /\ upreq.system # <<>>
       /\ Len(upreq.msgs) = 1
       /\ upreq.msgs[1].role = "user"
       /\ upreq.msgs[1].content = ForwardedContent(rq)

C24_Witness ==
  /\ rpc = "CallingUpstream"
  /\ rq.variant = "p3a"
  /\ Len(rq.req.body.items) = 3
  /\ upreq.system = DefaultSystem
  /\ upreq.msgs = <<Msg("user", Why)>>

(***************************************************************************)
(* The store of /api/tools (C25).                                          *)
(***************************************************************************)
\* the runs of context.set on key that came before run number n
SetsBefore(key, n) ==
  {j \in DOMAIN treq : /\ treq[j].action = "context.set"
                       /\ treq[j].payload.key = key
                       /\ treq[j].ran \in 1..(n - 1)}

\* the value a context.get on key that runs as number n has to return
LatestSet(key, n) ==
  IF SetsBefore(key, n) = {} THEN JsNull
  ELSE LET j == CHOOSE a \in SetsBefore(key, n) :
                  \A b \in SetsBefore(key, n) : treq[b].ran <= treq[a].ran
           v == treq[j].payload.value
       IN  JsString(IF v = Undefined THEN <<>>
                    ELSE IF v = ValueFive THEN <<53>>
                    ELSE v.s)

\* a request with a key
Keyed(i) == treq[i].payload.key \in {KeyA, KeyB}

\* the readers of C25: under any interleaving of the requests to
\* /api/tools, context.get
\* for key k returns the value, as a string, of the most recent context.set
\* on k, or null when k was never set; context.set and context.get without
\* a key answer 400.
C25_Register ==
  \A i \in DOMAIN treq :
    (treq[i].pc = "done" /\ treq[i].action \in {"context.set", "context.get"})
      => IF ~Keyed(i)
           THEN treq[i].resp = ToolJson(400, "Missing key", Undefined)
         ELSE IF treq[i].action = "context.set"
           THEN treq[i].resp = ToolJson(200, "", Undefined)
         ELSE treq[i].resp = ToolJson(200, "", LatestSet(treq[i].payload.key, treq[i].ran))

\* the writers of C25: a step changes the store only when it is the run of a
\* context.set with a key, and then only the entry of that key.
C25_Writers ==
  [][ memory' # memory =>
        \E i \in DOMAIN treq :
          /\ treq[i].pc = "parsing" /\ treq'[i].pc = "done"
          /\ treq[i].action = "context.set"
          /\ Keyed(i)
          /\ \A k \in {KeyA, KeyB} \ {treq[i].payload.key} :
               MapGet(memory', k) = MapGet(memory, k)
    ]_vars

\* C25: the store of /api/tools is a register per key under any
\* interleaving of requests (context.get returns the latest context.set of
\* its key as a string, or null; a missing key is answered 400), and only
\* context.set with a key writes it.
C25_Store == []C25_Register /\ C25_Writers

C25_Witness ==
  /\ Len(treq) = 3
  /\ treq[1].action = "context.set" /\ treq[1].payload = [key |-> KeyA, value |-> ValueFive]
  /\ treq[2].action = "context.set" /\ treq[2].payload = [key |-> KeyA, value |-> ValueX]
  /\ treq[3].action = "context.get" /\ treq[3].payload.key = KeyA
  /\ treq[2].ran = 1
  /\ treq[1].ran = 2
  /\ treq[3].ran = 3
  /\ treq[3].resp.value = JsString(<<53>>)

(***************************************************************************)
(* The tool messages during a stream (C26).                                *)
(***************************************************************************)
\* C26: a step of the read loop changes no message but the placeholder
\* created for its turn, so that a message a tool button appended is never
\* modified, also when it is appended while the stream is being read.
C26_OnlyPlaceholder ==
  [][ IsReadStep => \A j \in Changed : j = turn.idx ]_vars

(***************************************************************************)
(* The end of the line buffer (C30).                                       *)
(***************************************************************************)
\* the script ends with text that no newline follows
EndsWithTail(sc) == sc # <<>> /\ Last(sc).k = "tail"

\* the items of the script are events, data: [DONE], empty lines and a tail
EventsAndTail(sc) ==
  \A k \in DOMAIN sc : sc[k].k \in {"delta", "blank", "done", "tail"}

\* C30: only the lines a newline ends are processed: when the stream ends,
\* what is left in the line buffer, a last data line with no newline, is
\* discarded, and the final content of the assistant message is the
\* concatenation of the fragments of the lines that a newline ended.
C30_TailDiscarded ==
  (calls # <<>> /\ calls[1].pc = "done" /\ turn.st = "ended"
     /\ EndsWithTail(Scripts[turn.sid]))
    => /\ Len(messages) = 2
       /\ turn.midLine
       /\ EventsAndTail(Scripts[turn.sid])
            => messages[2].content = Fragments(Scripts[turn.sid])
       /\ turn.sid = 10 => messages[2].content = <<97>>
       /\ turn.sid = 4 => messages[2].content = <<120>>

C30_Witness ==
  /\ calls # <<>>
  /\ calls[1].pc = "done"
  /\ turn.st = "ended"
  /\ turn.sid = 10
  /\ turn.midLine
  /\ messages[2].content = <<97>>

(***************************************************************************)
(* The preference cookies that cannot be decoded (C29).                    *)
(***************************************************************************)
\* the cookie called name is there and its value is no valid
\* percent-encoding
BadDirective(cookie, name) ==
  /\ Directive(cookie, name) # <<>>
  /\ DecodeURIComponent(Directive(cookie, name)).throws

\* C29: in the phase-3 streaming handlers, with the key configured, a
\* translateLang or injectNote cookie whose value is no valid
\* percent-encoding makes the decoding fail before the upstream call: the
\* response is a 500 JSON error with the message of the exception and no
\* fetch is made for the request.
C29_BadCookie ==
  (rpc # "Idle" /\ rq.variant \in {"p3a", "p3b"} /\ rq.env.key # ""
     /\ \/ BadDirective(rq.req.cookie, Front(TranslateLangEq))
        \/ BadDirective(rq.req.cookie, Front(InjectNoteEq)))
    => /\ fetches = 0
       /\ rpc # "CallingUpstream"
       /\ rpc = "Responded" => resp = JsonError(500, "URI malformed")

(***************************************************************************)
(* The component Chat of phase 2 (C27, C28).                               *)
(***************************************************************************)
\* an operation whose request is in flight or whose stream is being read
Busy == \E i \in DOMAIN calls : calls[i].pc \in {"fetching", "reading"}

\* C27: in the Chat component of phase 2, loading is true in every state in
\* which a request to /api/agent started by sendMessage, by the button
\* "Demander un resume" or by the action summarizeLastMessages is in flight
\* or its stream is being read.
C27_LoadingWhileBusy == Busy => loading

\* the text decoded from the bytes operation i has read, and from its whole
\* stream
DecodedPrefix ==
  [r \in DOMAIN Replies |->
     [p \in 0..Len(Replies[r]) |->
        Decode(DecoderInit, SubSeq(Replies[r], 1, p)).out]]
ReadSoFar(i) == DecodedPrefix[calls[i].rid][calls[i].pos]
WholeStream(i) == DecodedPrefix[calls[i].rid][Len(Replies[calls[i].rid])]

\* the user messages and the error messages, which no stream writes
Fixed(m) ==
  \/ m.role = "user" /\ m.content = Trim(<<32, 72, 105>>)
  \/ m.role = "assistant" /\ m.content \in {SendErrorText, SummaryErrorText}
       /\ \E i \in DOMAIN calls : calls[i].pc = "failed" /\ m.id = Uuid(i, 3)

\* C28: in the Chat component of phase 2, with several streams read at the
\* same time, the content of each assistant message is at all times the text
\* decoded from the chunks read so far from its own stream, in order (a
\* prefix of the whole decoded stream, and equal to it once the stream has
\* ended); a chunk goes to the message with the id of its operation, so no
\* other message changes, and a chunk that arrives after reset is dropped.
C28_OwnStream ==
  /\ \A i \in DOMAIN calls :
       calls[i].aid # 0 =>
         /\ Cardinality({k \in DOMAIN messages : messages[k].id = calls[i].aid}) <= 1
         /\ \A k \in DOMAIN messages :
              messages[k].id = calls[i].aid =>
                /\ messages[k].role = "assistant"
                /\ messages[k].content = ReadSoFar(i)
                /\ Len(ReadSoFar(i)) <= Len(WholeStream(i))
                /\ ReadSoFar(i) = SubSeq(WholeStream(i), 1, Len(ReadSoFar(i)))
                /\ calls[i].pc = "done" => messages[k].content = WholeStream(i)
  /\ \A k \in DOMAIN messages :
       \/ Fixed(messages[k])
       \/ \E i \in DOMAIN calls : calls[i].aid # 0 /\ messages[k].id = calls[i].aid

\* two streams are read at the same time: the first has delivered one byte
\* of its e-acute, the second its first letter
C28_Witness ==
  /\ Len(calls) >= 2
  /\ calls[1].pc = "reading" /\ calls[1].rid = 1 /\ calls[1].pos = 1
  /\ calls[2].pc = "reading" /\ calls[2].rid = 2 /\ calls[2].pos = 1
  /\ \E j, k \in DOMAIN messages :
       /\ j < k
       /\ messages[j].id = calls[1].aid /\ messages[j].content = <<>>
       /\ messages[k].id = calls[2].aid /\ messages[k].content = <<111>>

=============================================================================
